---------------------------- MODULE Spec2Model ----------------------------
(***************************************************************************)
(* Model of the offline binary rewriter of hwp-exam-editor                 *)
(* (src/core/formatter.py, class HwpFormatter): record framing, paragraph  *)
(* classification, PARA_CHAR_SHAPE run rewriting, recompression to the     *)
(* original stream length, style transplant, face reconciliation and the   *)
(* orchestration post_process_style_ids.                                   *)
(*                                                                         *)
(* Byte buffers are sequences over 0..255.  Offsets in the definitions are *)
(* the 0-based offsets of the Python source; the sequence element at       *)
(* 0-based offset o is buf[o + 1].                                         *)
(***************************************************************************)
EXTENDS Integers, Sequences, FiniteSets, TLC

VARIABLES
    arg,              \* inputs of the pure function under check (pure-function specifications)
    ret,              \* its result (a record), or NotRun before the call
    file,             \* the saved HWP container: its streams FileHeader, DocInfo, Section0
    template,         \* the container at style_map_source (exists = FALSE: no such file)
    style_index_map,  \* HwpFormatter.style_index_map
    question_style,   \* HwpFormatter.question_style
    passage_style,    \* HwpFormatter.passage_style
    style_warnings,   \* style_runtime_warnings and _style_runtime_warning_seen
    zmemo,            \* what zlib has been seen to do: buffer -> profile of output lengths
    hist              \* history of the calls made (observation only)

formatter == <<file, template, style_index_map, question_style, passage_style,
               style_warnings, zmemo, hist>>
vars == <<arg, ret, formatter>>

NotRun == [called |-> FALSE]
None == [none |-> TRUE]     \* Python None where a record is expected

\* the pure-function specifications have no formatter
NoFormatter ==
    /\ file = None /\ template = None /\ style_index_map = None
    /\ question_style = <<>> /\ passage_style = <<>>
    /\ style_warnings = None /\ zmemo = None /\ hist = None

(***************************************************************************)
(* Bounds of the model                                                     *)
(***************************************************************************)
MaxRunCount == 3      \* runs per PARA_CHAR_SHAPE payload
MaxCharId == 3        \* char-shape ids range over 0..MaxCharId
MaxTextLen == 5       \* characters of a classified text
MaxParas == 2         \* paragraphs of a body stream (SpecBody)
MaxZLen == 4          \* byte length of a DEFLATE output / of a target size (SpecRecompress)

(***************************************************************************)
(* Little-endian packing (struct "<H", "<I")                               *)
(***************************************************************************)
Bytes(n) == [i \in 1..n |-> 0]

U16(buf, off) == buf[off + 1] + 256 * buf[off + 2]

U32(buf, off) ==
    buf[off + 1] + 256 * buf[off + 2] + 65536 * buf[off + 3] + 16777216 * buf[off + 4]

PackU16(v) == <<v % 256, (v \div 256) % 256>>

PackU32(v) ==
    <<v % 256, (v \div 256) % 256, (v \div 65536) % 256, (v \div 16777216) % 256>>

\* buffer[off:off+len(b)] = b  (same length, in place)
Patch(buf, off, b) ==
    SubSeq(buf, 1, off) \o b \o SubSeq(buf, off + Len(b) + 1, Len(buf))

Slice(buf, from, to) == SubSeq(buf, from + 1, to)


Range(f) == {f[i] : i \in DOMAIN f}

RECURSIVE Concat(_)
Concat(ss) == IF ss = <<>> THEN <<>> ELSE Head(ss) \o Concat(Tail(ss))

\* a local variable: F applied to the value of v, which is computed once
Bind(v, F(_)) == CHOOSE y \in {F(x) : x \in {v}} : TRUE

(***************************************************************************)
(* PARA_CHAR_SHAPE runs: N * [position(uint32), charshape_id(uint32)]      *)
(***************************************************************************)
ParaCharShapeRunCount(payload_size) ==
    IF payload_size < 8 THEN 0
    ELSE IF payload_size % 8 # 0 THEN 0
    ELSE payload_size \div 8

\* offsets: range(4, payload_size, 8), as a sequence
RunOffsets(payload_size) ==
    [k \in 1..((payload_size + 3) \div 8) |-> 4 + 8 * (k - 1)]

\* run_ids: the uint32 at every offset of RunOffsets
RunIds(buffer, data_start, payload_size) ==
    [k \in 1..Len(RunOffsets(payload_size)) |->
        U32(buffer, data_start + RunOffsets(payload_size)[k])]

CountOf(ids, c) == Cardinality({k \in DOMAIN ids : ids[k] = c})

FirstPos(ids, c) == CHOOSE k \in DOMAIN ids :
    ids[k] = c /\ \A j \in DOMAIN ids : ids[j] = c => k <= j

\* A plausible slip: ties go to the id that occurs first LAST (">" for "<").
BaseCharIdLateTie(ids) ==
    CHOOSE c \in Range(ids) : \A d \in Range(ids) : d # c =>
        \/ CountOf(ids, c) > CountOf(ids, d)
        \/ CountOf(ids, c) = CountOf(ids, d) /\ FirstPos(ids, c) > FirstPos(ids, d)

\* min(counts.keys(), key=lambda cid: (-counts[cid], first_pos[cid]))
BaseCharId(ids) ==
    CHOOSE c \in Range(ids) : \A d \in Range(ids) : d # c =>
        \/ CountOf(ids, c) > CountOf(ids, d)
        \/ CountOf(ids, c) = CountOf(ids, d) /\ FirstPos(ids, c) < FirstPos(ids, d)

\* A plausible slip: the test "current_char_id == target_char_id" is missing,
\* so a base run that already holds the target is written and counted as a change.
RECURSIVE RewriteBaseRunsAlwaysWrite(_, _, _, _, _, _, _)
RewriteBaseRunsAlwaysWrite(buffer, data_start, offsets, run_ids, base, target, idx) ==
    IF idx > Len(run_ids) THEN [buffer |-> buffer, changed |-> FALSE]
    ELSE IF run_ids[idx] # base
         THEN RewriteBaseRunsAlwaysWrite(buffer, data_start, offsets, run_ids, base, target,
                                         idx + 1)
         ELSE LET rest == RewriteBaseRunsAlwaysWrite(
                              Patch(buffer, data_start + offsets[idx], PackU32(target)),
                              data_start, offsets, run_ids, base, target, idx + 1)
              IN  [buffer |-> rest.buffer, changed |-> TRUE]

\* the loop of lines 1246-1252 from run index idx (1-based) on
RECURSIVE RewriteBaseRuns(_, _, _, _, _, _, _)
RewriteBaseRuns(buffer, data_start, offsets, run_ids, base, target, idx) ==
    IF idx > Len(run_ids) THEN [buffer |-> buffer, changed |-> FALSE]
    ELSE IF run_ids[idx] # base \/ run_ids[idx] = target
         THEN RewriteBaseRuns(buffer, data_start, offsets, run_ids, base, target, idx + 1)
         ELSE LET rest == RewriteBaseRuns(
                              Patch(buffer, data_start + offsets[idx], PackU32(target)),
                              data_start, offsets, run_ids, base, target, idx + 1)
              IN  [buffer |-> rest.buffer, changed |-> TRUE]

\* A plausible slip: the single run's id is written over its start position.
RewriteSingleRunAtPosition(buffer, data_start, offsets, run_ids, target) ==
    IF run_ids[1] # target
    THEN [buffer  |-> Patch(buffer, data_start + offsets[1] - 4, PackU32(target)),
          changed |-> TRUE]
    ELSE [buffer |-> buffer, changed |-> FALSE]

\* the run_count == 1 branch, lines 1228-1233
RewriteSingleRun(buffer, data_start, offsets, run_ids, target) ==
    IF run_ids[1] # target
    THEN [buffer  |-> Patch(buffer, data_start + offsets[1], PackU32(target)),
          changed |-> TRUE]
    ELSE [buffer |-> buffer, changed |-> FALSE]

\* _rewrite_para_char_shape_runs: the buffer after the call and the returned flag
RewriteParaCharShapeRuns(buffer, data_start, payload_size, target_char_id) ==
    LET run_count == ParaCharShapeRunCount(payload_size)
        offsets   == RunOffsets(payload_size)
        run_ids   == RunIds(buffer, data_start, payload_size)
    IN  IF run_count <= 0 \/ run_ids = <<>>
        THEN [buffer |-> buffer, changed |-> FALSE]
        ELSE IF run_count = 1
        THEN RewriteSingleRun(buffer, data_start, offsets, run_ids, target_char_id)
        ELSE RewriteBaseRuns(buffer, data_start, offsets, run_ids,
                             BaseCharId(run_ids), target_char_id, 1)

(***************************************************************************)
(* Specification SpecRuns: _rewrite_para_char_shape_runs on every payload  *)
(* of 1..MaxRunCount runs with ids in 0..MaxCharId, at data_start 0 or 4,  *)
(* with a well-formed size or 4 stray bytes counted into the size.         *)
(***************************************************************************)
RunPayload(ids) ==
    Concat([k \in 1..Len(ids) |-> PackU32(5 * (k - 1)) \o PackU32(ids[k])])

RunIdLists == UNION {[1..n -> 0..MaxCharId] : n \in 1..MaxRunCount}

RunsInputs ==
    {[fn           |-> "runs",
      buffer       |-> [i \in 1..ds |-> 7] \o RunPayload(ids) \o [i \in 1..extra |-> 9],
      data_start   |-> ds,
      payload_size |-> 8 * Len(ids) + extra,
      target       |-> t] :
        ids \in RunIdLists, ds \in {0, 4}, extra \in {0, 4}, t \in 0..(MaxCharId + 1)}

InitRuns == arg \in RunsInputs /\ ret = NotRun /\ NoFormatter

CallRewriteRuns ==
    /\ arg.fn = "runs" /\ ret = NotRun
    /\ ret' = RewriteParaCharShapeRuns(arg.buffer, arg.data_start, arg.payload_size, arg.target)
    /\ UNCHANGED <<arg, formatter>>

NextRuns == CallRewriteRuns

SpecRuns == InitRuns /\ [][NextRuns]_vars

\* the run ids / start positions of the payload in a buffer (valid sizes only)
IdsIn(buffer) == RunIds(buffer, arg.data_start, arg.payload_size)
StartsIn(buffer) ==
    [k \in 1..(arg.payload_size \div 8) |-> U32(buffer, arg.data_start + 8 * (k - 1))]

\* C8: with two or more runs, the base id is the id of highest occurrence count
\* (ties: earliest first occurrence); every run holding the base id gets the
\* target id and every other run keeps its id.
C8_MajorityRunsRewritten ==
    (ret # NotRun /\ arg.payload_size % 8 = 0 /\ arg.payload_size >= 16) =>
        LET old == IdsIn(arg.buffer)
            new == IdsIn(ret.buffer)
            isBase(c) == \A d \in Range(old) : d # c =>
                \/ CountOf(old, c) > CountOf(old, d)
                \/ /\ CountOf(old, c) = CountOf(old, d)
                   /\ \E k \in DOMAIN old : old[k] = c /\ \A j \in 1..k : old[j] # d
        IN  \E b \in Range(old) :
                /\ isBase(b)
                /\ \A k \in DOMAIN old :
                       new[k] = IF old[k] = b THEN arg.target ELSE old[k]

\* C8 witness: a tie between two ids (the earlier one is the base) with a third
\* position, rewritten to a target that is none of the ids.
C8_Witness ==
    /\ ret # NotRun /\ arg.payload_size = 24
    /\ IdsIn(arg.buffer) = <<1, 2, 3>> /\ arg.target = 0
    /\ IdsIn(ret.buffer) = <<0, 2, 3>>

\* C9: with exactly one run (payload size 8) the run's id becomes the target,
\* its start position is kept, nothing else in the buffer changes, and
\* 'changed' is returned iff the id differed from the target.
C9_SingleRunForced ==
    (ret # NotRun /\ arg.payload_size = 8) =>
        /\ IdsIn(ret.buffer) = <<arg.target>>
        /\ StartsIn(ret.buffer) = StartsIn(arg.buffer)
        /\ Len(ret.buffer) = Len(arg.buffer)
        /\ ret.changed <=> (IdsIn(arg.buffer)[1] # arg.target)

C9_Witness ==
    /\ ret # NotRun /\ arg.payload_size = 8
    /\ IdsIn(arg.buffer) = <<1>> /\ arg.target = 2
    /\ IdsIn(ret.buffer) = <<2>> /\ ret.changed

(***************************************************************************)
(* Paragraph classifier.  A text is a sequence of UTF-16 code units.       *)
(***************************************************************************)
\* str.isspace(), which str.strip() and the pattern's \s use
IsSpace(c) ==
    \/ c \in {9, 10, 11, 12, 13, 28, 29, 30, 31, 32, 133, 160, 5760,
              8232, 8233, 8239, 8287, 12288}
    \/ (c >= 8192 /\ c <= 8202)

\* the pattern's \d: a decimal digit (ASCII, and the Unicode digits of which
\* the Arabic-Indic and full-width ranges stand here)
IsDigit(c) ==
    \/ (c >= 48 /\ c <= 57)
    \/ (c >= 1632 /\ c <= 1641)
    \/ (c >= 65296 /\ c <= 65305)

\* the characters of lstrip("\ufeff\u200b\u2060\xa0")
IsNoise(c) == c \in {65279, 8203, 8288, 160}

MarkerMun == 47928      \* U+BB38, the marker word of the pattern
CharDot == 46
CharParen == 41

RECURSIVE LStripSpace(_)
LStripSpace(s) ==
    IF s # <<>> /\ IsSpace(Head(s)) THEN LStripSpace(Tail(s)) ELSE s

RECURSIVE RStripSpace(_)
RStripSpace(s) ==
    IF s # <<>> /\ IsSpace(s[Len(s)]) THEN RStripSpace(SubSeq(s, 1, Len(s) - 1)) ELSE s

\* text.strip()
Strip(s) == RStripSpace(LStripSpace(s))

RECURSIVE LStripNoise(_)
LStripNoise(s) ==
    IF s # <<>> /\ IsNoise(Head(s)) THEN LStripNoise(Tail(s)) ELSE s

\* the index reached from i by the pattern's greedy \s*
RECURSIVE SkipSpace(_, _)
SkipSpace(s, i) ==
    IF i <= Len(s) /\ IsSpace(s[i]) THEN SkipSpace(s, i + 1) ELSE i

\* A plausible slip: the pattern without \s* before the terminator.
DigitsThenTerminatorNoSpace(s, i) ==
    \E n \in 1..3 :
        /\ i + n - 1 <= Len(s)
        /\ \A k \in i..(i + n - 1) : IsDigit(s[k])
        /\ i + n <= Len(s) /\ s[i + n] \in {CharDot, CharParen}

\* \d{1,3}\s*[\.\)] matched at index i (1-based)
DigitsThenTerminator(s, i) ==
    \E n \in 1..3 :
        /\ i + n - 1 <= Len(s)
        /\ \A k \in i..(i + n - 1) : IsDigit(s[k])
        /\ LET j == SkipSpace(s, i + n)
           IN  j <= Len(s) /\ s[j] \in {CharDot, CharParen}

\* _QUESTION_NUMBER_RE.match(s): ^(?:\uBB38\s*)?\d{1,3}\s*[\.\)]\s*
QuestionNumberReMatch(s) ==
    \/ DigitsThenTerminator(s, 1)
    \/ /\ s # <<>> /\ s[1] = MarkerMun
       /\ DigitsThenTerminator(s, SkipSpace(s, 2))

\* _classify_paragraph_style
ClassifyParagraphStyle(text, question_idx, passage_idx) ==
    LET stripped == Strip(text)
    IN  IF stripped = <<>> THEN 0
        ELSE IF QuestionNumberReMatch(LStripNoise(stripped)) THEN question_idx
        ELSE passage_idx

(***************************************************************************)
(* Specification SpecClassify: the classifier on every text of at most     *)
(* MaxTextLen characters over space, NBSP, BOM, '1', '.', ')', the marker  *)
(* and a letter, with the indices of the repository's tests (7 and 9).     *)
(***************************************************************************)
TextAlphabet == {32, 160, 65279, 49, CharDot, CharParen, MarkerMun, 97}

Texts == UNION {[1..n -> TextAlphabet] : n \in 0..MaxTextLen}

ClassifyInputs ==
    {[fn |-> "classify", text |-> t, question_idx |-> 7, passage_idx |-> 9] : t \in Texts}

InitClassify == arg \in ClassifyInputs /\ ret = NotRun /\ NoFormatter

CallClassify ==
    /\ arg.fn = "classify" /\ ret = NotRun
    /\ ret' = [called |-> TRUE,
               value  |-> ClassifyParagraphStyle(arg.text, arg.question_idx, arg.passage_idx)]
    /\ UNCHANGED <<arg, formatter>>

NextClassify == CallClassify

SpecClassify == InitClassify /\ [][NextClassify]_vars

\* The claim's reading of a text, stated on index positions: the trimmed form
\* is the stretch between the first and the last non-space character, and the
\* candidate is what follows its leading noise characters.
TrimmedForm(t) ==
    LET keep == {i \in DOMAIN t : ~IsSpace(t[i])}
    IN  IF keep = {} THEN <<>>
        ELSE SubSeq(t, CHOOSE i \in keep : \A j \in keep : i <= j,
                       CHOOSE i \in keep : \A j \in keep : i >= j)

CandidateForm(t) ==
    LET tr   == TrimmedForm(t)
        real == {i \in DOMAIN tr : ~IsNoise(tr[i])}
    IN  IF real = {} THEN <<>>
        ELSE SubSeq(tr, CHOOSE i \in real : \A j \in real : i <= j, Len(tr))

\* marker?, digits{1,3}, terminator, with nothing in between
StrictNumberPrefix(c) ==
    \E m \in {0, 1}, n \in 1..3 :
        /\ m + n + 1 <= Len(c)
        /\ (m = 1 => c[1] = MarkerMun)
        /\ \A k \in (m + 1)..(m + n) : IsDigit(c[k])
        /\ c[m + n + 1] \in {CharDot, CharParen}

\* marker? spaces* digits{1,3} spaces* terminator
SpacedNumberPrefix(c) ==
    \E m \in {0, 1}, a \in 0..Len(c), n \in 1..3, b \in 0..Len(c) :
        /\ m + a + n + b + 1 <= Len(c)
        /\ (m = 1 => c[1] = MarkerMun)
        /\ (m = 0 => a = 0)
        /\ \A k \in (m + 1)..(m + a) : IsSpace(c[k])
        /\ \A k \in (m + a + 1)..(m + a + n) : IsDigit(c[k])
        /\ \A k \in (m + a + n + 1)..(m + a + n + b) : IsSpace(c[k])
        /\ c[m + a + n + b + 1] \in {CharDot, CharParen}

\* C10 as stated: question index exactly for marker?/1-3 digits/'.' or ')' with
\* nothing in between, 0 for empty or whitespace-only text, passage index for
\* every other text.
C10_StrictPrefixClassification ==
    ret # NotRun =>
        ret.value = IF TrimmedForm(arg.text) = <<>> THEN 0
                    ELSE IF StrictNumberPrefix(CandidateForm(arg.text)) THEN arg.question_idx
                    ELSE arg.passage_idx

\* C10 amended: the prefix may hold whitespace after the marker and between the
\* digits and the terminator; 0 for empty or whitespace-only text; the passage
\* index for every other text.
C10_SpacedPrefixClassification ==
    ret # NotRun =>
        ret.value = IF TrimmedForm(arg.text) = <<>> THEN 0
                    ELSE IF SpacedNumberPrefix(CandidateForm(arg.text)) THEN arg.question_idx
                    ELSE arg.passage_idx

\* C10 witness: "\uBB38 1." behind a BOM is classified as a question.
C10_Witness ==
    /\ ret # NotRun
    /\ arg.text = <<65279, MarkerMun, 32, 49>> \o <<CharDot>>
    /\ ret.value = arg.question_idx

\* C11: a text whose trimmed form is empty once its leading noise characters
\* (U+FEFF, U+200B, U+2060, U+00A0) are removed, a text of noise characters
\* only included, is classified as the base style index 0.
C11_NoiseOnlyIsBase ==
    (ret # NotRun /\ CandidateForm(arg.text) = <<>>) => ret.value = 0

(***************************************************************************)
(* Raw streams and recompression.  A raw (on-disk) stream is modelled by   *)
(* what zlib.decompress(raw, -15) yields (payload), the length of its      *)
(* DEFLATE part (clen) and its total length (len): the bytes after the     *)
(* end-of-stream marker are padding.  The length zlib produces for a       *)
(* buffer at a level is not computed here: it is given as `sizes`, a       *)
(* function from the level to the output length.                          *)
(***************************************************************************)
Levels == {9, 6, 3, 1, 0}

\* compressor.compress(data) + compressor.flush() at one level
Deflate(data, level, sizes) ==
    [payload |-> data, clen |-> sizes[level], len |-> sizes[level]]

\* bytes.ljust(width, b"\x00"): pads, never truncates
Ljust(z, width) == [z EXCEPT !.len = IF width > z.len THEN width ELSE z.len]

\* A plausible slip: the fitting output is returned without the padding.
FitToSizeUnpadded(z, target_size) ==
    IF z.len <= target_size THEN z ELSE None

\* "if len(compressed) <= target_size: return compressed.ljust(...)", else fall
\* through (None here)
FitToSize(z, target_size) ==
    IF z.len <= target_size THEN Ljust(z, target_size) ELSE None

\* the loop "for level in (9, 6, 3, 1)" from position i of the level sequence
RECURSIVE TryLevels(_, _, _, _, _)
TryLevels(data, target_size, sizes, levels, i) ==
    IF i > Len(levels) THEN None
    ELSE LET fit == FitToSize(Deflate(data, levels[i], sizes), target_size)
         IN  IF fit # None THEN fit
             ELSE TryLevels(data, target_size, sizes, levels, i + 1)

\* _recompress_to_exact_size
RecompressToExactSize(data, target_size, sizes) ==
    LET first == TryLevels(data, target_size, sizes, <<9, 6, 3, 1>>, 1)
    IN  IF first # None THEN first
        ELSE FitToSize(Deflate(data, 0, sizes), target_size)

(***************************************************************************)
(* Specification SpecRecompress: _recompress_to_exact_size for every       *)
(* assignment of output lengths 1..MaxZLen to the five levels and every    *)
(* target size 0..MaxZLen.                                                 *)
(***************************************************************************)
RecompressInputs ==
    {[fn |-> "recompress", data |-> d, target_size |-> t, sizes |-> z] :
        d \in {<<>>, <<1, 2, 3>>}, t \in 0..MaxZLen, z \in [Levels -> 1..MaxZLen]}

InitRecompress == arg \in RecompressInputs /\ ret = NotRun /\ NoFormatter

CallRecompress ==
    /\ arg.fn = "recompress" /\ ret = NotRun
    /\ ret' = [called |-> TRUE,
               value  |-> RecompressToExactSize(arg.data, arg.target_size, arg.sizes)]
    /\ UNCHANGED <<arg, formatter>>

NextRecompress == CallRecompress

SpecRecompress == InitRecompress /\ [][NextRecompress]_vars

\* C5: the result is the failure value or a stream of exactly target_size
\* bytes (that decompresses to the given buffer); failure is returned only
\* when no level's output fits.
C5_ExactSizeOrNone ==
    ret # NotRun =>
        IF \E l \in Levels : arg.sizes[l] <= arg.target_size
        THEN /\ ret.value # None
             /\ ret.value.len = arg.target_size
             /\ ret.value.payload = arg.data
        ELSE ret.value = None

\* C5 witness: only level 1 fits, two bytes short of the target; the result is
\* padded to the target.
C5_Witness ==
    /\ ret # NotRun
    /\ arg.target_size = 3
    /\ arg.sizes = [l \in Levels |-> IF l = 1 THEN 1 ELSE 4]
    /\ ret.value # None /\ ret.value.clen = 1 /\ ret.value.len = 3

(***************************************************************************)
(* Record framing: uint32 header = tag_id (bits 0-9) | size (bits 20-31);  *)
(* size 0xFFF is followed by the true size as a uint32.                    *)
(***************************************************************************)
TAG_ID_MAPPINGS == 17
TAG_CHAR_SHAPE == 21
TAG_STYLE == 26
TAG_PARA_HEADER == 66
TAG_PARA_TEXT == 67
TAG_PARA_CHAR_SHAPE == 68
NoId == -1      \* Python None where an int is expected (int | None)

\* h & 0x3FF, on the two low bytes of the header
TagAt(buf, pos) == (buf[pos + 1] + 256 * buf[pos + 2]) % 1024

\* (h >> 20) & 0xFFF, on the two high bytes of the header
SizeFieldAt(buf, pos) == (buf[pos + 3] \div 16) + 16 * buf[pos + 4]

\* The header decode every record loop repeats, for a record at pos with
\* pos + 4 <= len(buf): ok is FALSE where the loop breaks (size word missing or
\* payload overrunning the buffer).
Frame(buf, pos) ==
    IF SizeFieldAt(buf, pos) = 4095
    THEN IF pos + 8 > Len(buf)
         THEN [ok |-> FALSE, tag_id |-> TagAt(buf, pos), size |-> 0, data_start |-> pos + 4]
         ELSE [ok         |-> pos + 8 + U32(buf, pos + 4) <= Len(buf),
               tag_id     |-> TagAt(buf, pos),
               size       |-> U32(buf, pos + 4),
               data_start |-> pos + 8]
    ELSE [ok         |-> pos + 4 + SizeFieldAt(buf, pos) <= Len(buf),
          tag_id     |-> TagAt(buf, pos),
          size       |-> SizeFieldAt(buf, pos),
          data_start |-> pos + 4]

\* dict helpers: a dict is a function on a finite set of keys
Put(d, k, v) == [x \in (DOMAIN d) \cup {k} |-> IF x = k THEN v ELSE d[x]]
Get(d, k, default) == IF k \in DOMAIN d THEN d[k] ELSE default
EmptyDict == [x \in {} |-> 0]

(***************************************************************************)
(* Text collection pass (_collect_para_texts)                              *)
(***************************************************************************)
\* the PARA_TEXT decode loop from byte offset i: codes < 32 are inline-object
\* markers (1-23 skip 12 bytes, 24-31 skip 8), other codes are characters
RECURSIVE DecodeParaText(_, _, _)
DecodeParaText(payload, i, chars) ==
    IF ~(i < Len(payload) - 1) THEN chars
    ELSE LET code == U16(payload, i)
         IN  IF code < 32
             THEN DecodeParaText(payload,
                                 IF code >= 1 /\ code <= 23 THEN i + 2 + 12
                                 ELSE IF code >= 24 /\ code <= 31 THEN i + 2 + 8
                                 ELSE i + 2,
                                 chars)
             ELSE DecodeParaText(payload, i + 2, Append(chars, code))

\* The loop of _collect_para_texts.  texts is the dict it builds; stored_at
\* records, for the PARA_HEADER record at each position, the value para_idx
\* has once that header is counted, which is the key its text is stored under.
RECURSIVE CollectWalk(_, _, _, _, _)
CollectWalk(body, pos, para_idx, texts, stored_at) ==
    IF ~(pos + 4 <= Len(body)) THEN [texts |-> texts, stored_at |-> stored_at]
    ELSE LET f == Frame(body, pos)
         IN  IF ~f.ok THEN [texts |-> texts, stored_at |-> stored_at]
             ELSE LET idx     == IF f.tag_id = TAG_PARA_HEADER THEN para_idx + 1 ELSE para_idx
                      payload == Slice(body, f.data_start, f.data_start + f.size)
                  IN  CollectWalk(body, f.data_start + f.size, idx,
                          IF f.tag_id = TAG_PARA_TEXT /\ Len(payload) >= 2 /\ idx >= 0
                          THEN Put(texts, idx, DecodeParaText(payload, 0, <<>>))
                          ELSE texts,
                          IF f.tag_id = TAG_PARA_HEADER
                          THEN Put(stored_at, pos, idx)
                          ELSE stored_at)

\* A plausible slip: para_idx starts at 0, so each text is stored one index late.
CollectParaTextsFromZero(body) == CollectWalk(body, 0, 0, EmptyDict, EmptyDict).texts

CollectParaTexts(body) == CollectWalk(body, 0, -1, EmptyDict, EmptyDict).texts

CollectParaIndex(body) == CollectWalk(body, 0, -1, EmptyDict, EmptyDict).stored_at

(***************************************************************************)
(* Rewrite pass (_rewrite_style_ids, stage 2: lines 611-657)               *)
(***************************************************************************)
\* A plausible slip: the PARA_HEADER branch without its size guard.
IsRewrittenParaHeaderAnySize(tag_id, size) == tag_id = TAG_PARA_HEADER

\* "tag_id == 66 and size >= 11"
IsRewrittenParaHeader(tag_id, size) == tag_id = TAG_PARA_HEADER /\ size >= 11

\* lines 649-653: the run ids of a question paragraph that differ from the
\* active char id
EmphasisIdsOfRuns(buf, data_start, size, active_char_id) ==
    IF size >= 8 /\ size % 8 = 0
    THEN {U32(buf, data_start + 8 * k + 4) : k \in 0..((size \div 8) - 1)} \ {active_char_id}
    ELSE {}

\* The while loop of lines 619-657.  st holds the loop's variables; cx the
\* values fixed before it (para_texts, the two style indices and char ids).
\* lookups records, per PARA_HEADER position, the para_idx used at line 633.
RECURSIVE RewriteWalk(_, _)
RewriteWalk(st, cx) ==
    IF ~(st.pos + 4 <= Len(st.modified)) THEN st
    ELSE LET f == Frame(st.modified, st.pos)
         IN  IF ~f.ok THEN st
             ELSE IF IsRewrittenParaHeader(f.tag_id, f.size)
             THEN LET text      == Get(cx.para_texts, st.para_idx, <<>>)
                      new_style == ClassifyParagraphStyle(text, cx.question_idx, cx.passage_idx)
                      differs   == st.modified[f.data_start + 10 + 1] # new_style
                  IN  RewriteWalk(
                        [st EXCEPT
                           !.active_style_id = new_style,
                           !.active_char_id =
                               IF new_style = cx.question_idx
                               THEN cx.question_char_id ELSE cx.passage_char_id,
                           !.question_para_hits =
                               IF new_style = cx.question_idx /\ Strip(text) # <<>>
                               THEN @ + 1 ELSE @,
                           !.modified =
                               IF differs THEN Patch(@, f.data_start + 10, <<new_style>>) ELSE @,
                           !.changed = IF differs THEN TRUE ELSE @,
                           !.lookups = Put(@, st.pos, st.para_idx),
                           !.para_idx = @ + 1,
                           !.pos = f.data_start + f.size], cx)
             ELSE IF f.tag_id = TAG_PARA_CHAR_SHAPE /\ st.active_char_id # NoId
             THEN LET rw == RewriteParaCharShapeRuns(st.modified, f.data_start, f.size,
                                                     st.active_char_id)
                  IN  RewriteWalk(
                        [st EXCEPT
                           !.question_emphasis_char_ids =
                               IF st.active_style_id = cx.question_idx
                               THEN @ \cup EmphasisIdsOfRuns(st.modified, f.data_start,
                                                             f.size, st.active_char_id)
                               ELSE @,
                           !.modified = rw.buffer,
                           !.changed = IF rw.changed THEN TRUE ELSE @,
                           !.pos = f.data_start + f.size], cx)
             ELSE RewriteWalk([st EXCEPT !.pos = f.data_start + f.size], cx)

\* lines 604-657 on a decompressed body: the collection pass, then the loop
RewritePass(body, question_idx, passage_idx, question_char_id, passage_char_id) ==
    RewriteWalk(
        [modified |-> body, para_idx |-> 0, pos |-> 0, changed |-> FALSE,
         question_para_hits |-> 0, active_char_id |-> NoId, active_style_id |-> NoId,
         question_emphasis_char_ids |-> {}, lookups |-> EmptyDict],
        [para_texts |-> CollectParaTexts(body),
         question_idx |-> question_idx, passage_idx |-> passage_idx,
         question_char_id |-> question_char_id, passage_char_id |-> passage_char_id])

\* _parse_record_positions: <<record_start, record_end, tag_id>> of every record
RECURSIVE ParseRecordsFrom(_, _, _)
ParseRecordsFrom(data, pos, records) ==
    IF ~(pos + 4 <= Len(data)) THEN records
    ELSE LET f == Frame(data, pos)
         IN  IF ~f.ok THEN records
             ELSE ParseRecordsFrom(data, f.data_start + f.size,
                                   Append(records, <<pos, f.data_start + f.size, f.tag_id>>))

ParseRecordPositions(data) == ParseRecordsFrom(data, 0, <<>>)

(***************************************************************************)
(* Building record streams (as the tests' _record helpers do)              *)
(***************************************************************************)
\* struct.pack("<I", (len(payload) << 20) | tag_id)
RecHeader(tag_id, size) ==
    <<tag_id % 256, tag_id \div 256, (size % 16) * 16, size \div 16>>

Rec(tag_id, payload) == RecHeader(tag_id, Len(payload)) \o payload

\* the same record with the size escape: size field 0xFFF, then the true size
RecExt(tag_id, payload) ==
    RecHeader(tag_id, 4095) \o PackU32(Len(payload)) \o payload

\* a PARA_HEADER payload of n bytes with the style id at offset 10 (if it has one)
ParaHeaderPayload(n, style_id) == [i \in 1..n |-> IF i = 11 THEN style_id ELSE 0]

\* text.encode("utf-16le")
Utf16(chars) == Concat([k \in 1..Len(chars) |-> PackU16(chars[k])])

\* a paragraph: its header, then its PARA_TEXT and PARA_CHAR_SHAPE records
\* (texts and shapes are sequences of payloads, empty when the record is absent)
Para(header, texts, shapes) ==
    header \o Concat([k \in 1..Len(texts) |-> Rec(TAG_PARA_TEXT, texts[k])])
           \o Concat([k \in 1..Len(shapes) |-> Rec(TAG_PARA_CHAR_SHAPE, shapes[k])])

TextQuestion == <<49, CharDot>>     \* "1."
TextPassage == <<97>>               \* "a"

\* The paragraph shapes of the body streams of SpecBody.
ParaKinds ==
    {Para(Rec(TAG_PARA_HEADER, ParaHeaderPayload(11, 0)),
          <<Utf16(TextQuestion)>>, <<RunPayload(<<1>>)>>),
     Para(Rec(TAG_PARA_HEADER, ParaHeaderPayload(12, 2)),
          <<Utf16(TextQuestion)>>, <<RunPayload(<<1, 2>>)>>),
     Para(Rec(TAG_PARA_HEADER, ParaHeaderPayload(11, 0)),
          <<Utf16(TextPassage)>>, <<RunPayload(<<2, 1, 2>>)>>),
     Para(Rec(TAG_PARA_HEADER, ParaHeaderPayload(11, 1)),
          <<Utf16(TextPassage)>>, <<RunPayload(<<3>>)>>),
     \* no PARA_TEXT record
     Para(Rec(TAG_PARA_HEADER, ParaHeaderPayload(11, 0)), <<>>, <<RunPayload(<<1>>)>>),
     \* a PARA_HEADER shorter than 11 bytes
     Para(Rec(TAG_PARA_HEADER, ParaHeaderPayload(4, 0)),
          <<Utf16(TextQuestion)>>, <<RunPayload(<<1>>)>>),
     \* an inline-object marker before the text; a run payload of 12 bytes
     Para(Rec(TAG_PARA_HEADER, ParaHeaderPayload(11, 1)),
          <<PackU16(2) \o Bytes(12) \o Utf16(TextQuestion)>>, <<RunPayload(<<1>>) \o Bytes(4)>>),
     \* an escaped-size header; whitespace text
     Para(RecExt(TAG_PARA_HEADER, ParaHeaderPayload(11, 2)),
          <<Utf16(<<32>>)>>, <<RunPayload(<<0, 0>>)>>),
     \* a record of another tag inside the paragraph, no runs
     Para(Rec(TAG_PARA_HEADER, ParaHeaderPayload(11, 2)) \o Rec(71, <<5, 5>>),
          <<Utf16(TextPassage)>>, <<>>)}

\* what may follow the last complete record: nothing, fewer than 4 bytes, or a
\* record whose claimed size overruns the buffer
BodyTails == {<<>>, <<66, 0>>, RecHeader(TAG_PARA_TEXT, 8) \o <<49, 0>>}

Bodies ==
    {Concat(ps) \o tail : ps \in UNION {[1..n -> ParaKinds] : n \in 1..MaxParas},
                          tail \in BodyTails}

\* (question_idx, passage_idx, question_char_id, passage_char_id)
StyleParams ==
    {<<1, 2, 3, 0>>, <<2, 2, 1, 1>>, <<0, 1, NoId, 2>>, <<1, 2, 2, NoId>>, <<3, 4, 50, 60>>}

(***************************************************************************)
(* Specification SpecBody: the collection pass and the rewrite pass on     *)
(* every body of Bodies with every parameter tuple of StyleParams.         *)
(***************************************************************************)
BodyInputs ==
    {[fn |-> "body", body |-> b, question_idx |-> sp[1], passage_idx |-> sp[2],
      question_char_id |-> sp[3], passage_char_id |-> sp[4]] :
        b \in Bodies, sp \in StyleParams}

InitBody == arg \in BodyInputs /\ ret = NotRun /\ NoFormatter

CallRewritePass ==
    /\ arg.fn = "body" /\ ret = NotRun
    /\ ret' = RewritePass(arg.body, arg.question_idx, arg.passage_idx,
                          arg.question_char_id, arg.passage_char_id)
    /\ UNCHANGED <<arg, formatter>>

NextBody == CallRewritePass

SpecBody == InitBody /\ [][NextBody]_vars

\* C2: at every PARA_HEADER the rewrite pass handles, the index it looks the
\* text up with is the index under which the collection pass stored that
\* paragraph's text (the number of PARA_HEADER records before it).
C2_ParagraphIndexAgrees ==
    ret # NotRun =>
        \A pos \in DOMAIN ret.lookups :
            /\ ret.lookups[pos] = CollectParaIndex(arg.body)[pos]
            /\ ret.lookups[pos] =
                   Cardinality({k \in DOMAIN ParseRecordPositions(arg.body) :
                                   /\ ParseRecordPositions(arg.body)[k][3] = TAG_PARA_HEADER
                                   /\ ParseRecordPositions(arg.body)[k][1] < pos})

\* C6: the rewrite pass keeps the buffer's length, changes only the style-id
\* byte (payload offset 10) of PARA_HEADER records and the char-shape id bytes
\* (payload offsets 8k+4..8k+7) of PARA_CHAR_SHAPE records, and the modified
\* buffer decodes to the same records (positions, tags, sizes) as the original.
C6_RewriteFrame ==
    ret # NotRun =>
        LET old  == arg.body
            new  == ret.modified
            recs == ParseRecordPositions(old)
            mutable(i) == \E k \in DOMAIN recs :
                LET f == Frame(old, recs[k][1])
                    o == (i - 1) - f.data_start
                IN  /\ o >= 0 /\ o < f.size
                    /\ \/ f.tag_id = TAG_PARA_HEADER /\ o = 10
                       \/ f.tag_id = TAG_PARA_CHAR_SHAPE /\ o % 8 \in 4..7
        IN  /\ Len(new) = Len(old)
            /\ \A i \in 1..Len(old) : new[i] # old[i] => mutable(i)
            /\ ParseRecordPositions(new) = recs
            /\ \A k \in DOMAIN recs :
                   Frame(new, recs[k][1]) = Frame(old, recs[k][1])

\* C6 witness: a style byte and a run id were rewritten in a body that holds a
\* short PARA_HEADER and ends in a truncated record.
C6_Witness ==
    /\ ret # NotRun /\ ret.changed
    /\ \E i \in 1..Len(arg.body) : ret.modified[i] # arg.body[i]
    /\ \E k \in DOMAIN ParseRecordPositions(arg.body) :
           LET r == ParseRecordPositions(arg.body)[k]
           IN  r[3] = TAG_PARA_HEADER /\ Frame(arg.body, r[1]).size < 11
    /\ ParseRecordPositions(arg.body)[Len(ParseRecordPositions(arg.body))][2] < Len(arg.body)
    /\ \E k \in DOMAIN ParseRecordPositions(arg.body) :
           LET r == ParseRecordPositions(arg.body)[k]
               f == Frame(arg.body, r[1])
           IN  /\ r[3] = TAG_PARA_CHAR_SHAPE /\ f.size = 24
               /\ U32(ret.modified, f.data_start + 4) # U32(arg.body, f.data_start + 4)

\* the records of a body, three by three, when every paragraph of it is a
\* PARA_HEADER with a style byte, its PARA_TEXT and a PARA_CHAR_SHAPE of one run
PlainParagraphs(body) ==
    LET recs == ParseRecordPositions(body)
    IN  /\ Len(recs) > 0 /\ Len(recs) % 3 = 0
        /\ \A p \in 0..((Len(recs) \div 3) - 1) :
              /\ recs[3 * p + 1][3] = TAG_PARA_HEADER
              /\ Frame(body, recs[3 * p + 1][1]).size >= 11
              /\ recs[3 * p + 2][3] = TAG_PARA_TEXT
              /\ recs[3 * p + 3][3] = TAG_PARA_CHAR_SHAPE
              /\ Frame(body, recs[3 * p + 3][1]).size = 8

\* C16: in a body whose paragraphs are each a PARA_HEADER, its PARA_TEXT and a
\* one-run PARA_CHAR_SHAPE, with both char-shape ids resolved, the rewrite
\* leaves a numbered-question paragraph with the question index in its style
\* byte and the question char id in its run, and any other paragraph with
\* text with the passage index and the passage char id.
C16_ParagraphsRestyled ==
    (/\ ret # NotRun /\ arg.fn = "body" /\ PlainParagraphs(arg.body)
     /\ arg.question_char_id # NoId /\ arg.passage_char_id # NoId) =>
        LET recs == ParseRecordPositions(arg.body)
        IN  \A p \in 0..((Len(recs) \div 3) - 1) :
                LET h    == Frame(arg.body, recs[3 * p + 1][1])
                    t    == Frame(arg.body, recs[3 * p + 2][1])
                    r    == Frame(arg.body, recs[3 * p + 3][1])
                    text == DecodeParaText(Slice(arg.body, t.data_start,
                                                 t.data_start + t.size), 0, <<>>)
                    style_byte == ret.modified[h.data_start + 10 + 1]
                    run_id     == U32(ret.modified, r.data_start + 4)
                IN  IF SpacedNumberPrefix(CandidateForm(text))
                    THEN style_byte = arg.question_idx /\ run_id = arg.question_char_id
                    ELSE TrimmedForm(text) # <<>> =>
                            style_byte = arg.passage_idx /\ run_id = arg.passage_char_id

\* C16 witness: a question paragraph, then a passage paragraph, rewritten with
\* indices 3 and 4 and char ids 50 and 60.
C16_Witness ==
    /\ ret # NotRun /\ arg.fn = "body"
    /\ arg.body = Para(Rec(TAG_PARA_HEADER, ParaHeaderPayload(11, 0)),
                       <<Utf16(TextQuestion)>>, <<RunPayload(<<1>>)>>)
                    \o Para(Rec(TAG_PARA_HEADER, ParaHeaderPayload(11, 1)),
                            <<Utf16(TextPassage)>>, <<RunPayload(<<3>>)>>)
    /\ arg.question_idx = 3 /\ arg.passage_idx = 4
    /\ ret.modified = Para(Rec(TAG_PARA_HEADER, ParaHeaderPayload(11, 3)),
                           <<Utf16(TextQuestion)>>, <<RunPayload(<<50>>)>>)
                        \o Para(Rec(TAG_PARA_HEADER, ParaHeaderPayload(11, 4)),
                                <<Utf16(TextPassage)>>, <<RunPayload(<<60>>)>>)

(***************************************************************************)
(* DocInfo: STYLE and CHAR_SHAPE tables                                    *)
(***************************************************************************)
\* _parse_style_char_id: the uint16 at offset 6 of the tail that follows the
\* two length-prefixed names; NoId for None
ParseStyleCharId(payload) ==
    IF Len(payload) < 4 THEN NoId
    ELSE LET local_end == 2 + U16(payload, 0) * 2
         IN  IF local_end + 2 > Len(payload) THEN NoId
             ELSE LET eng_end == local_end + 2 + U16(payload, local_end) * 2
                  IN  IF Len(payload) - eng_end < 8 THEN NoId
                      ELSE U16(payload, eng_end + 6)

\* the loop of _collect_style_char_ids
RECURSIVE StyleCharIdsFrom(_, _, _, _)
StyleCharIdsFrom(data, pos, style_index, style_char_ids) ==
    IF ~(pos + 4 <= Len(data)) THEN style_char_ids
    ELSE LET f == Frame(data, pos)
         IN  IF ~f.ok THEN style_char_ids
             ELSE IF f.tag_id = TAG_STYLE
             THEN LET char_id == ParseStyleCharId(Slice(data, f.data_start, f.data_start + f.size))
                  IN  StyleCharIdsFrom(data, f.data_start + f.size, style_index + 1,
                          IF char_id # NoId THEN Put(style_char_ids, style_index, char_id)
                          ELSE style_char_ids)
             ELSE StyleCharIdsFrom(data, f.data_start + f.size, style_index, style_char_ids)

\* _collect_style_char_ids on the decompressed DocInfo: style index -> char id
CollectStyleCharIds(data) == StyleCharIdsFrom(data, 0, 0, EmptyDict)

ZeroFace == Bytes(14)

\* the loop of _collect_docinfo_charshape_face_bytes
RECURSIVE FaceBytesFrom(_, _, _, _)
FaceBytesFrom(data, pos, charshape_index, faces) ==
    IF ~(pos + 4 <= Len(data)) THEN faces
    ELSE LET f == Frame(data, pos)
         IN  IF ~f.ok THEN faces
             ELSE IF f.tag_id = TAG_CHAR_SHAPE
             THEN FaceBytesFrom(data, f.data_start + f.size, charshape_index + 1,
                      IF f.size >= 14
                      THEN Put(faces, charshape_index, Slice(data, f.data_start, f.data_start + 14))
                      ELSE faces)
             ELSE FaceBytesFrom(data, f.data_start + f.size, charshape_index, faces)

\* _collect_docinfo_charshape_face_bytes: char-shape index -> 14 face bytes
CollectDocinfoCharshapeFaceBytes(data) == FaceBytesFrom(data, 0, 0, EmptyDict)

\* the scan of _rewrite_charshape_face_refs_in_docinfo_bytes (lines 884-905):
\* source_face (<<>> for None) and target_offsets
\* A plausible slip: only CHAR_SHAPE records of 14 bytes or more are counted.
RECURSIVE FaceScanFromCountingWhole(_, _, _, _, _, _)
FaceScanFromCountingWhole(data, pos, charshape_index, source_char_id, target_char_ids, found) ==
    IF ~(pos + 4 <= Len(data)) THEN found
    ELSE LET f == Frame(data, pos)
         IN  IF ~f.ok THEN found
             ELSE IF f.tag_id = TAG_CHAR_SHAPE /\ f.size >= 14
             THEN FaceScanFromCountingWhole(data, f.data_start + f.size, charshape_index + 1,
                      source_char_id, target_char_ids,
                      [source_face |->
                           IF charshape_index = source_char_id
                           THEN Slice(data, f.data_start, f.data_start + 14)
                           ELSE found.source_face,
                       target_offsets |->
                           IF charshape_index \in target_char_ids
                           THEN Append(found.target_offsets, f.data_start)
                           ELSE found.target_offsets])
             ELSE FaceScanFromCountingWhole(data, f.data_start + f.size, charshape_index,
                                            source_char_id, target_char_ids, found)

RECURSIVE FaceScanFrom(_, _, _, _, _, _)
FaceScanFrom(data, pos, charshape_index, source_char_id, target_char_ids, found) ==
    IF ~(pos + 4 <= Len(data)) THEN found
    ELSE LET f == Frame(data, pos)
         IN  IF ~f.ok THEN found
             ELSE IF f.tag_id = TAG_CHAR_SHAPE
             THEN FaceScanFrom(data, f.data_start + f.size, charshape_index + 1,
                      source_char_id, target_char_ids,
                      IF f.size >= 14
                      THEN [source_face |->
                                IF charshape_index = source_char_id
                                THEN Slice(data, f.data_start, f.data_start + 14)
                                ELSE found.source_face,
                            target_offsets |->
                                IF charshape_index \in target_char_ids
                                THEN Append(found.target_offsets, f.data_start)
                                ELSE found.target_offsets]
                      ELSE found)
             ELSE FaceScanFrom(data, f.data_start + f.size, charshape_index,
                               source_char_id, target_char_ids, found)

\* lines 910-916: copy the source face onto every target offset that differs
RECURSIVE CopyFaces(_, _, _, _)
CopyFaces(data, source_face, target_offsets, i) ==
    IF i > Len(target_offsets) THEN [data |-> data, changed |-> FALSE]
    ELSE IF Slice(data, target_offsets[i], target_offsets[i] + 14) = source_face
         THEN CopyFaces(data, source_face, target_offsets, i + 1)
         ELSE LET rest == CopyFaces(Patch(data, target_offsets[i], source_face),
                                    source_face, target_offsets, i + 1)
              IN  [data |-> rest.data, changed |-> TRUE]

\* _rewrite_charshape_face_refs_in_docinfo_bytes: the buffer after the call and
\* the returned flag
RewriteCharshapeFaceRefsInDocinfoBytes(data, source_char_id, target_char_ids) ==
    Bind(FaceScanFrom(data, 0, 0, source_char_id, target_char_ids,
                      [source_face |-> <<>>, target_offsets |-> <<>>]),
         LAMBDA found :
            IF found.source_face = <<>> \/ found.target_offsets = <<>>
            THEN [data |-> data, changed |-> FALSE]
            ELSE CopyFaces(data, found.source_face, found.target_offsets, 1))

(***************************************************************************)
(* _collect_question_charshape_mismatch_ids: base id -> deviant ids, as a  *)
(* sequence of [source, targets] in insertion order (dict order)           *)
(***************************************************************************)
\* source_to_targets.setdefault(base, set()).add(cid)
AddTarget(stt, base, cid) ==
    IF \E i \in DOMAIN stt : stt[i].source = base
    THEN [i \in DOMAIN stt |->
             IF stt[i].source = base
             THEN [stt[i] EXCEPT !.targets = @ \cup {cid}] ELSE stt[i]]
    ELSE Append(stt, [source |-> base, targets |-> {cid}])

\* lines 837-840 from run index i on
RECURSIVE AddDeviants(_, _, _, _)
AddDeviants(stt, run_ids, base, i) ==
    IF i > Len(run_ids) THEN stt
    ELSE AddDeviants(IF run_ids[i] = base THEN stt ELSE AddTarget(stt, base, run_ids[i]),
                     run_ids, base, i + 1)

RECURSIVE MismatchWalk(_, _, _, _, _, _)
MismatchWalk(body, para_texts, pos, para_idx, active_is_question, stt) ==
    IF ~(pos + 4 <= Len(body)) THEN stt
    ELSE LET f == Frame(body, pos)
         IN  IF ~f.ok THEN stt
             ELSE IF f.tag_id = TAG_PARA_HEADER
             THEN MismatchWalk(body, para_texts, f.data_start + f.size, para_idx + 1,
                      QuestionNumberReMatch(LStripNoise(Strip(Get(para_texts, para_idx, <<>>)))),
                      stt)
             ELSE IF /\ f.tag_id = TAG_PARA_CHAR_SHAPE /\ active_is_question
                     /\ f.size >= 16 /\ f.size % 8 = 0
             THEN LET run_ids == RunIds(body, f.data_start, f.size)
                  IN  MismatchWalk(body, para_texts, f.data_start + f.size, para_idx,
                          active_is_question,
                          AddDeviants(stt, run_ids, BaseCharId(run_ids), 1))
             ELSE MismatchWalk(body, para_texts, f.data_start + f.size, para_idx,
                               active_is_question, stt)

CollectQuestionCharshapeMismatchIds(body, para_texts) ==
    MismatchWalk(body, para_texts, 0, 0, FALSE, <<>>)

(***************************************************************************)
(* Style transplant helpers                                                *)
(***************************************************************************)
\* _extract_style_records_bytes: the raw bytes of all STYLE records, and their count
ExtractStyleRecordsBytes(data) ==
    Bind(SelectSeq(ParseRecordPositions(data), LAMBDA r : r[3] = TAG_STYLE),
         LAMBDA styles :
            [bytes |-> Concat([k \in 1..Len(styles) |->
                                  Slice(data, styles[k][1], styles[k][2])]),
             count |-> Len(styles)])

\* A plausible slip: the count field is overwritten whatever it holds.
RECURSIVE UpdateIdMappingsFromAnyValue(_, _, _, _)
UpdateIdMappingsFromAnyValue(data, pos, old_count, new_count) ==
    IF ~(pos + 4 <= Len(data)) THEN data
    ELSE LET f == Frame(data, pos)
         IN  IF ~f.ok THEN data
             ELSE IF f.tag_id = TAG_ID_MAPPINGS
             THEN IF f.data_start + 56 + 4 <= f.data_start + f.size
                  THEN Patch(data, f.data_start + 56, PackU32(new_count))
                  ELSE data
             ELSE UpdateIdMappingsFromAnyValue(data, f.data_start + f.size,
                                               old_count, new_count)

\* _update_id_mappings_style_count: at the first ID_MAPPINGS record, the uint32
\* at payload offset 56 becomes new_count if it equals old_count
RECURSIVE UpdateIdMappingsFrom(_, _, _, _)
UpdateIdMappingsFrom(data, pos, old_count, new_count) ==
    IF ~(pos + 4 <= Len(data)) THEN data
    ELSE LET f == Frame(data, pos)
         IN  IF ~f.ok THEN data
             ELSE IF f.tag_id = TAG_ID_MAPPINGS
             THEN IF /\ f.data_start + 56 + 4 <= f.data_start + f.size
                     /\ U32(data, f.data_start + 56) = old_count
                  THEN Patch(data, f.data_start + 56, PackU32(new_count))
                  ELSE data
             ELSE UpdateIdMappingsFrom(data, f.data_start + f.size, old_count, new_count)

UpdateIdMappingsStyleCount(data, old_count, new_count) ==
    UpdateIdMappingsFrom(data, 0, old_count, new_count)

(***************************************************************************)
(* Style index map (built from the template when the formatter is made)    *)
(***************************************************************************)
\* bytes.decode("utf-16le", errors="ignore"): whole code units only
DecodeUtf16(b) == [k \in 1..(Len(b) \div 2) |-> U16(b, 2 * (k - 1))]

RECURSIVE StripNul(_)
StripNul(t) ==
    IF t # <<>> /\ Head(t) = 0 THEN StripNul(Tail(t))
    ELSE IF t # <<>> /\ t[Len(t)] = 0 THEN StripNul(SubSeq(t, 1, Len(t) - 1))
    ELSE t

\* str.lower() on the letters A-Z (other characters of the model's names have
\* no lower-case form)
Lower(t) == [k \in 1..Len(t) |-> IF t[k] >= 65 /\ t[k] <= 90 THEN t[k] + 32 ELSE t[k]]

Min(a, b) == IF a < b THEN a ELSE b

\* _parse_style_names: <<local_name, eng_name>>
ParseStyleNames(payload) ==
    IF Len(payload) < 4 THEN <<<<>>, <<>>>>
    ELSE LET local_end == 2 + U16(payload, 0) * 2
         IN  IF local_end > Len(payload) THEN <<<<>>, <<>>>>
             ELSE LET local_name == Strip(StripNul(DecodeUtf16(Slice(payload, 2, local_end))))
                  IN  IF local_end + 2 > Len(payload) THEN <<local_name, <<>>>>
                      ELSE LET eng_start == local_end + 2
                               eng_end   == Min(Len(payload),
                                                eng_start + U16(payload, local_end) * 2)
                           IN  <<local_name,
                                 Strip(StripNul(DecodeUtf16(Slice(payload, eng_start, eng_end))))>>

\* mapping[name] = idx; mapping[name.lower()] = idx, for a non-empty name
PutName(mapping, name, idx) ==
    IF name = <<>> THEN mapping ELSE Put(Put(mapping, name, idx), Lower(name), idx)

\* the loop of _load_style_index_map
RECURSIVE StyleIndexMapFrom(_, _, _, _)
StyleIndexMapFrom(data, pos, style_index, mapping) ==
    IF ~(pos + 4 <= Len(data)) THEN mapping
    ELSE LET f == Frame(data, pos)
         IN  IF ~f.ok THEN mapping
             ELSE IF f.tag_id # TAG_STYLE
             THEN StyleIndexMapFrom(data, f.data_start + f.size, style_index, mapping)
             ELSE LET names == ParseStyleNames(Slice(data, f.data_start, f.data_start + f.size))
                  IN  StyleIndexMapFrom(data, f.data_start + f.size, style_index + 1,
                          PutName(PutName(mapping, names[1], style_index),
                                  names[2], style_index))

\* mapping.setdefault(name, idx); mapping.setdefault(name.lower(), idx)
SetDefaultName(mapping, name, idx) ==
    LET m1 == IF name \in DOMAIN mapping THEN mapping ELSE Put(mapping, name, idx)
    IN  IF Lower(name) \in DOMAIN m1 THEN m1 ELSE Put(m1, Lower(name), idx)

\* _seed_builtin_style_aliases: U+BC14 U+D0D5 U+AE00 / "Normal" -> 0, U+BCF8 U+BB38 / "Body" -> 1
\* (names as UTF-16 code units)
SeedBuiltinStyleAliases(mapping) ==
    SetDefaultName(
      SetDefaultName(
        SetDefaultName(
          SetDefaultName(mapping, <<48148, 53461, 44544>>, 0),
          <<78, 111, 114, 109, 97, 108>>, 0),
        <<48376, 47928>>, 1),
      <<66, 111, 100, 121>>, 1)

RECURSIVE IntOf(_)
IntOf(t) == IF t = <<>> THEN 0 ELSE 10 * IntOf(SubSeq(t, 1, Len(t) - 1)) + (t[Len(t)] - 48)

\* _resolve_style_index; NoId for None
ResolveStyleIndex(mapping, style_name) ==
    LET text == Strip(style_name)
    IN  IF text = <<>> THEN NoId
        ELSE IF \A k \in DOMAIN text : text[k] >= 48 /\ text[k] <= 57 THEN IntOf(text)
        ELSE IF text \in DOMAIN mapping THEN mapping[text]
        ELSE IF Lower(text) \in DOMAIN mapping THEN mapping[Lower(text)]
        ELSE NoId

\* a warning message: its fixed text and the style names formatted into it
Message(text, names) == [text |-> text, names |-> names]

\* _record_style_warning on (warnings, seen)
RecordStyleWarning(w, message) ==
    IF message.text # "" /\ message \notin w.seen
    THEN [warnings |-> Append(w.warnings, message), seen |-> w.seen \cup {message}]
    ELSE w

(***************************************************************************)
(* Containers.  A container is a record of its streams; a stream is a raw  *)
(* stream [payload, clen, len].  In an uncompressed container the raw      *)
(* bytes are the payload.                                                  *)
(***************************************************************************)
\* ole.exists(name): the container holds a stream of that name
Exists(container, name) == name \in DOMAIN container

\* bytes(modified) written as is
Plain(data) == [payload |-> data, clen |-> Len(data), len |-> Len(data)]

\* flags = struct.unpack("<I", hdr[36:40])[0] if len(hdr) >= 40 else 0
HeaderFlags(hdr) == IF Len(hdr) >= 40 THEN U32(hdr, 36) ELSE 0

\* bool(flags & 0x01)
IsCompressed(hdr) == HeaderFlags(hdr) % 2 = 1

\* zlib.decompress(raw, -15) if compressed else raw
Decompressed(raw, compressed) == raw.payload

\* a container that takes a write of any size
CanWriteStreamAnySize(container, name, new_raw) == TRUE

\* ole.write_stream(name, data): olefile replaces the stream's bytes and
\* raises ValueError when the size differs from the stream's size
CanWriteStream(container, name, new_raw) == new_raw.len = container[name].len

\* A plausible slip: a write to the first body section goes to every body
\* section of the container.
WriteStreamEverySection(container, name, new_raw) ==
    [n \in DOMAIN container |->
        IF n = name \/ (name = "Section0" /\ n = "Section1") THEN new_raw ELSE container[n]]

WriteStream(container, name, new_raw) == [container EXCEPT ![name] = new_raw]

\* The output lengths zlib gives for a buffer, per level, in one of two
\* profiles: 1 = every level compresses it to ZFitLen bytes, 2 = no level
\* compresses it (level 0 stores the buffer in one block: 5 bytes more).
ZFitLen == 6
ZProfiles == {1, 2}
ZProfile(data, k) ==
    [l \in Levels |->
        IF l = 0 THEN Len(data) + 5
        ELSE IF k = 1 THEN ZFitLen
        ELSE Len(data) + 9]

\* zlib is a function of its input: a buffer compressed before gets the same
\* output again (memo), a new one gets the profile k
SizesFor(memo, data, k) ==
    ZProfile(data, IF data \in DOMAIN memo THEN memo[data] ELSE k)

Remember(memo, data, k) == IF data \in DOMAIN memo THEN memo ELSE Put(memo, data, k)

(***************************************************************************)
(* The operations on a container.  Each yields an effect:                  *)
(*   container : the container after the call                              *)
(*   ret       : the value returned (FALSE also when raised)               *)
(*   raised    : an exception left the call                                *)
(*   attempts  : the write_stream calls issued, in order                   *)
(*   zdata     : the buffers handed to _recompress_to_exact_size, each    *)
(*               with the profile offered for it, in order                 *)
(*   zfail     : a recompression returned None                             *)
(***************************************************************************)
Attempt(container, name, new_raw) ==
    [stream |-> name, size |-> new_raw.len, had |-> container[name].len]

NoEffect(container, value) ==
    [container |-> container, ret |-> value, raised |-> FALSE,
     attempts |-> <<>>, zdata |-> <<>>, zfail |-> FALSE]

\* "if compressed: new_raw = recompress(...); if new_raw is None: return False
\*  else: new_raw = bytes(data); ole.write_stream(name, new_raw); return True"
\* the tail shared by lines 678-687, 727-734, 785-792 and 1141-1151
PersistStream(container, compressed, name, data, memo, k) ==
    Bind(IF compressed
         THEN RecompressToExactSize(data, container[name].len, SizesFor(memo, data, k))
         ELSE Plain(data),
         LAMBDA new_raw :
            LET zdata == IF compressed THEN <<<<data, k>>>> ELSE <<>>
            IN  IF new_raw = None
                THEN [container |-> container, ret |-> FALSE, raised |-> FALSE,
                      attempts |-> <<>>, zdata |-> zdata, zfail |-> TRUE]
                ELSE IF ~CanWriteStream(container, name, new_raw)
                THEN [container |-> container, ret |-> FALSE, raised |-> TRUE,
                      attempts |-> <<Attempt(container, name, new_raw)>>,
                      zdata |-> zdata, zfail |-> FALSE]
                ELSE [container |-> WriteStream(container, name, new_raw), ret |-> TRUE,
                      raised |-> FALSE, attempts |-> <<Attempt(container, name, new_raw)>>,
                      zdata |-> zdata, zfail |-> FALSE])

\* _rewrite_docinfo_charshape_face_refs
RewriteDocinfoCharshapeFaceRefs(container, compressed, source_char_id, target_char_ids, memo, k) ==
    IF target_char_ids \ {source_char_id} = {} THEN NoEffect(container, FALSE)
    ELSE Bind(RewriteCharshapeFaceRefsInDocinfoBytes(
                  Decompressed(container.DocInfo, compressed), source_char_id,
                  target_char_ids \ {source_char_id}),
              LAMBDA rw :
                 IF ~rw.changed THEN NoEffect(container, FALSE)
                 ELSE PersistStream(container, compressed, "DocInfo", rw.data, memo, k))

\* the effects of two calls made one after the other
ThenEffect(e1, e2) ==
    [container |-> e2.container, ret |-> e2.ret, raised |-> e2.raised,
     attempts |-> e1.attempts \o e2.attempts, zdata |-> e1.zdata \o e2.zdata,
     zfail |-> e1.zfail \/ e2.zfail]

\* lines 659-699 of _rewrite_style_ids, after the rewrite pass: the effect of
\* the call, and whether the 'no question paragraph' warning is recorded
RewriteStyleIdsAfterPass(container, compressed, pass, question_idx, passage_idx, question_char_id, memo, k1, k2) ==
    LET warn == question_idx # passage_idx /\ pass.question_para_hits = 0
        fix_faces == question_char_id # NoId /\ pass.question_emphasis_char_ids # {}
        faces(c, k) == IF fix_faces
                       THEN RewriteDocinfoCharshapeFaceRefs(
                                c, compressed, question_char_id,
                                pass.question_emphasis_char_ids, memo, k)
                       ELSE NoEffect(c, FALSE)
    IN  IF ~pass.changed
        THEN Bind(faces(container, k1),
                  LAMBDA e : [eff |-> [e EXCEPT !.ret = ~e.raised],
                              pass |-> pass, warn |-> warn])
        ELSE Bind(PersistStream(container, compressed, "Section0", pass.modified, memo, k1),
                  LAMBDA wrote :
                     IF ~wrote.ret
                     THEN [eff |-> wrote, pass |-> pass, warn |-> warn]
                     ELSE Bind(faces(wrote.container, k2),
                               LAMBDA e :
                                  [eff |-> [ThenEffect(wrote, e) EXCEPT !.ret = ~e.raised],
                                   pass |-> pass, warn |-> warn]))

\* _rewrite_style_ids: its effect (eff), the rewrite pass's final variables
\* (pass) and whether the 'no question paragraph' warning is recorded (warn)
RewriteStyleIds(container, question_idx, passage_idx, memo, k1, k2) ==
    LET compressed == IsCompressed(container.FileHeader.payload) IN
    Bind(CollectStyleCharIds(Decompressed(container.DocInfo, compressed)),
         LAMBDA style_char_ids :
            Bind(RewritePass(Decompressed(container.Section0, compressed),
                             question_idx, passage_idx,
                             Get(style_char_ids, question_idx, NoId),
                             Get(style_char_ids, passage_idx, NoId)),
                 LAMBDA pass :
                    RewriteStyleIdsAfterPass(container, compressed, pass,
                        question_idx, passage_idx,
                        Get(style_char_ids, question_idx, NoId), memo, k1, k2)))

\* one round of the loop of post_process_question_emphasis_faces (lines
\* 765-780) for source_char_id, target_char_ids on (doc, face_map, changed)
ReconcileOne(lv, source_char_id, target_char_ids) ==
    LET source_face == Get(lv.face_map, source_char_id, <<>>)
        targets == {cid \in target_char_ids :
                       cid # source_char_id /\ Get(lv.face_map, cid, <<>>) = ZeroFace}
    IN  IF source_face = <<>> \/ source_face = ZeroFace \/ targets = {} THEN lv
        ELSE Bind(RewriteCharshapeFaceRefsInDocinfoBytes(lv.doc, source_char_id, targets),
                  LAMBDA rw :
                     IF rw.changed
                     THEN [doc |-> rw.data,
                           face_map |-> [c \in DOMAIN lv.face_map |->
                                            IF c \in targets THEN source_face
                                            ELSE lv.face_map[c]],
                           changed |-> TRUE]
                     ELSE lv)

\* the loop of post_process_question_emphasis_faces from entry i of
\* source_to_targets on
RECURSIVE ReconcileFaces(_, _, _)
ReconcileFaces(lv, stt, i) ==
    IF i > Len(stt) THEN lv
    ELSE Bind(ReconcileOne(lv, stt[i].source, stt[i].targets),
              LAMBDA next : ReconcileFaces(next, stt, i + 1))

\* post_process_question_emphasis_faces
PostProcessQuestionEmphasisFaces(container, memo, k) ==
    LET compressed == IsCompressed(container.FileHeader.payload)
        body == Decompressed(container.Section0, compressed)
        doc == Decompressed(container.DocInfo, compressed)
    IN  Bind(CollectQuestionCharshapeMismatchIds(body, CollectParaTexts(body)),
             LAMBDA stt :
                IF stt = <<>> THEN NoEffect(container, FALSE)
                ELSE Bind(CollectDocinfoCharshapeFaceBytes(doc),
                          LAMBDA face_map :
                             IF DOMAIN face_map = {} THEN NoEffect(container, FALSE)
                             ELSE Bind(ReconcileFaces([doc |-> doc, face_map |-> face_map,
                                                       changed |-> FALSE], stt, 1),
                                       LAMBDA lv :
                                          IF ~lv.changed THEN NoEffect(container, FALSE)
                                          ELSE PersistStream(container, compressed, "DocInfo",
                                                             lv.doc, memo, k))))

\* A plausible slip: only the first STYLE record of the target is replaced.
TransplantedDocinfoFirstOnly(o_docinfo, t_style_bytes, t_style_count) ==
    Bind(SelectSeq(ParseRecordPositions(o_docinfo), LAMBDA r : r[3] = TAG_STYLE),
         LAMBDA o_style_ranges :
            IF o_style_ranges = <<>> THEN [found |-> FALSE, data |-> <<>>]
            ELSE Bind(Slice(o_docinfo, 0, o_style_ranges[1][1]) \o t_style_bytes
                          \o Slice(o_docinfo, o_style_ranges[1][2], Len(o_docinfo)),
                      LAMBDA new_docinfo :
                         [found |-> TRUE,
                          data |-> IF t_style_count # Len(o_style_ranges)
                                   THEN UpdateIdMappingsStyleCount(
                                            new_docinfo, Len(o_style_ranges), t_style_count)
                                   ELSE new_docinfo]))

\* lines 1116-1138 of _transplant_template_styles: the target's DocInfo with
\* its STYLE range replaced by the template's STYLE records (found = FALSE
\* when the target has no STYLE record)
TransplantedDocinfo(o_docinfo, t_style_bytes, t_style_count) ==
    Bind(SelectSeq(ParseRecordPositions(o_docinfo), LAMBDA r : r[3] = TAG_STYLE),
         LAMBDA o_style_ranges :
            IF o_style_ranges = <<>> THEN [found |-> FALSE, data |-> <<>>]
            ELSE Bind(Slice(o_docinfo, 0, o_style_ranges[1][1]) \o t_style_bytes
                          \o Slice(o_docinfo, o_style_ranges[Len(o_style_ranges)][2],
                                   Len(o_docinfo)),
                      LAMBDA new_docinfo :
                         [found |-> TRUE,
                          data |-> IF t_style_count # Len(o_style_ranges)
                                   THEN UpdateIdMappingsStyleCount(
                                            new_docinfo, Len(o_style_ranges), t_style_count)
                                   ELSE new_docinfo]))

\* A plausible slip: a template without STYLE records is transplanted as well.
TransplantTemplateStylesAnyCount(container, tpl, memo, k) ==
    IF ~tpl.exists THEN NoEffect(container, FALSE)
    ELSE IF ~Exists(tpl, "DocInfo") \/ ~Exists(tpl, "FileHeader")
    THEN NoEffect(container, FALSE)
    ELSE IF ~Exists(container, "FileHeader") \/ ~Exists(container, "DocInfo")
    THEN NoEffect(container, FALSE)
    ELSE Bind(ExtractStyleRecordsBytes(
                  Decompressed(tpl.DocInfo, IsCompressed(tpl.FileHeader.payload))),
              LAMBDA t_styles :
                 Bind(TransplantedDocinfo(
                          Decompressed(container.DocInfo,
                                       IsCompressed(container.FileHeader.payload)),
                          t_styles.bytes, t_styles.count),
                      LAMBDA new_docinfo :
                         IF ~new_docinfo.found THEN NoEffect(container, FALSE)
                         ELSE Bind(PersistStream(container,
                                       IsCompressed(container.FileHeader.payload),
                                       "DocInfo", new_docinfo.data, memo, k),
                                   LAMBDA e : [e EXCEPT !.raised = FALSE])))

\* _transplant_template_styles; an exception inside it is caught (returns False)
TransplantTemplateStyles(container, tpl, memo, k) ==
    IF ~tpl.exists THEN NoEffect(container, FALSE)
    ELSE IF ~Exists(tpl, "DocInfo") \/ ~Exists(tpl, "FileHeader")
    THEN NoEffect(container, FALSE)
    ELSE Bind(ExtractStyleRecordsBytes(
                  Decompressed(tpl.DocInfo, IsCompressed(tpl.FileHeader.payload))),
              LAMBDA t_styles :
                 IF t_styles.count = 0 THEN NoEffect(container, FALSE)
                 \* ole.openstream raises on a missing stream (caught, line 1154)
                 ELSE IF ~Exists(container, "FileHeader") \/ ~Exists(container, "DocInfo")
                 THEN NoEffect(container, FALSE)
                 ELSE Bind(TransplantedDocinfo(
                               Decompressed(container.DocInfo,
                                            IsCompressed(container.FileHeader.payload)),
                               t_styles.bytes, t_styles.count),
                           LAMBDA new_docinfo :
                              IF ~new_docinfo.found THEN NoEffect(container, FALSE)
                              ELSE Bind(PersistStream(container,
                                            IsCompressed(container.FileHeader.payload),
                                            "DocInfo", new_docinfo.data, memo, k),
                                        LAMBDA e : [e EXCEPT !.raised = FALSE])))

\* the buffers compressed in a call enter the memo in order
RECURSIVE RememberAll(_, _)
RememberAll(memo, zdata) ==
    IF zdata = <<>> THEN memo
    ELSE RememberAll(Remember(memo, Head(zdata)[1], Head(zdata)[2]), Tail(zdata))

\* the write_stream calls of an effect, each labelled with the step issuing it
StepLog(step, e) ==
    [i \in 1..Len(e.attempts) |->
        [step |-> step, stream |-> e.attempts[i].stream,
         size |-> e.attempts[i].size, had |-> e.attempts[i].had]]

StepFailed(step, e) == IF e.zfail THEN {step} ELSE {}

\* A plausible slip: a failed transplant makes the call report failure.
StyleIdsOutcomeTransplantDecides(t, r, f, w) ==
    LET w3 == IF ~t.ret THEN RecordStyleWarning(w, Message("template style transplant failed", <<>>)) ELSE w
        w4 == IF r.warn THEN RecordStyleWarning(w3, Message("no question-number paragraph found", <<>>)) ELSE w3
        w5 == IF f.raised
              THEN RecordStyleWarning(w4, Message("emphasis face safety pass failed: ValueError", <<>>)) ELSE w4
    IN  IF r.eff.raised
        THEN [container |-> r.eff.container,
              result |-> FALSE,
              warn |-> RecordStyleWarning(w4, Message("style post-process failed: ValueError", <<>>)),
              zdata |-> t.zdata \o r.eff.zdata,
              log |-> StepLog("transplant", t) \o StepLog("rewrite", r.eff),
              zfailed |-> StepFailed("transplant", t) \cup StepFailed("rewrite", r.eff),
              changed |-> r.pass.changed]
        ELSE [container |-> f.container,
              result |-> r.eff.ret /\ t.ret,
              warn |-> w5,
              zdata |-> t.zdata \o r.eff.zdata \o f.zdata,
              log |-> StepLog("transplant", t) \o StepLog("rewrite", r.eff)
                          \o StepLog("faces", f),
              zfailed |-> StepFailed("transplant", t) \cup StepFailed("rewrite", r.eff)
                              \cup StepFailed("faces", f),
              changed |-> r.pass.changed]

\* lines 575-590 of post_process_style_ids, after the transplant (t), the
\* rewrite (r) and, unless the rewrite raised, the safety pass (f): w is the
\* warnings before the transplant
StyleIdsOutcome(t, r, f, w) ==
    LET w3 == IF ~t.ret THEN RecordStyleWarning(w, Message("template style transplant failed", <<>>)) ELSE w
        w4 == IF r.warn THEN RecordStyleWarning(w3, Message("no question-number paragraph found", <<>>)) ELSE w3
        w5 == IF f.raised
              THEN RecordStyleWarning(w4, Message("emphasis face safety pass failed: ValueError", <<>>)) ELSE w4
    IN  IF r.eff.raised
        THEN [container |-> r.eff.container,
              result |-> FALSE,
              warn |-> RecordStyleWarning(w4, Message("style post-process failed: ValueError", <<>>)),
              zdata |-> t.zdata \o r.eff.zdata,
              log |-> StepLog("transplant", t) \o StepLog("rewrite", r.eff),
              zfailed |-> StepFailed("transplant", t) \cup StepFailed("rewrite", r.eff),
              changed |-> r.pass.changed]
        ELSE [container |-> f.container,
              result |-> r.eff.ret,
              warn |-> w5,
              zdata |-> t.zdata \o r.eff.zdata \o f.zdata,
              log |-> StepLog("transplant", t) \o StepLog("rewrite", r.eff)
                          \o StepLog("faces", f),
              zfailed |-> StepFailed("transplant", t) \cup StepFailed("rewrite", r.eff)
                              \cup StepFailed("faces", f),
              changed |-> r.pass.changed]

\* A plausible slip: the fallback reports success whatever the pass returned.
StyleIdsFallbackAlwaysTrue(fb, w) ==
    [container |-> fb.container,
     result |-> TRUE,
     warn |-> IF fb.raised
              THEN RecordStyleWarning(w, Message("emphasis face pass failed: ValueError", <<>>))
              ELSE w,
     zdata |-> fb.zdata,
     log |-> StepLog("faces", fb),
     zfailed |-> StepFailed("faces", fb),
     changed |-> FALSE]

\* lines 556-561: neither style resolves; fb is the effect of the emphasis-face
\* pass, w the warnings with the warning of lines 553-555 recorded
StyleIdsFallback(fb, w) ==
    [container |-> fb.container,
     result |-> fb.ret,
     warn |-> IF fb.raised
              THEN RecordStyleWarning(w, Message("emphasis face pass failed: ValueError", <<>>))
              ELSE w,
     zdata |-> fb.zdata,
     log |-> StepLog("faces", fb),
     zfailed |-> StepFailed("faces", fb),
     changed |-> FALSE]

\* A plausible slip: a style that does not resolve is given index 0.
FallbackIndexZero(resolved, other) == IF resolved # NoId THEN resolved ELSE 0

\* lines 562-573: "fallback = other if other is not None else 0"
FallbackIndex(resolved, other) ==
    IF resolved # NoId THEN resolved ELSE IF other # NoId THEN other ELSE 0

\* how a step ended: with True, with False, or with an exception
Returned(e) == IF e.raised THEN "raised" ELSE IF e.ret THEN "True" ELSE "False"

\* the outcome of a call together with the steps it ran, the indices it
\* handed to _rewrite_style_ids (<<>> when it did not call it) and how each
\* step ended
Called(o, steps, indices, returns) ==
    [container |-> o.container, result |-> o.result, warn |-> o.warn, zdata |-> o.zdata,
     log |-> o.log, zfailed |-> o.zfailed, changed |-> o.changed,
     steps |-> steps, indices |-> indices, returns |-> returns]

\* post_process_style_ids on a formatter with the fields mapping
\* (style_index_map), question_style, passage_style and the warnings w;
\* k[1..4] are the profiles offered for the buffers it compresses.  'changed'
\* is the rewrite pass's flag after its loop, zdata the buffers compressed.
PostProcessStyleIds(container, tpl, mapping, q_style, p_style, w, memo, k) ==
    LET resolved_q == ResolveStyleIndex(mapping, q_style)
        resolved_p == ResolveStyleIndex(mapping, p_style)
        question_idx == FallbackIndex(resolved_q, resolved_p)
        passage_idx == FallbackIndex(resolved_p, question_idx)
        \* lines 562-573
        w1 == IF resolved_q = NoId
              THEN RecordStyleWarning(w, Message("question style not found: fallback",
                                                 <<q_style>>))
              ELSE w
        w2 == IF resolved_p = NoId
              THEN RecordStyleWarning(w1, Message("passage style not found: fallback",
                                                  <<p_style>>))
              ELSE w1
    IN  IF resolved_q = NoId /\ resolved_p = NoId
        THEN Bind(PostProcessQuestionEmphasisFaces(container, memo, k[1]),
                  LAMBDA fb :
                     Called(StyleIdsFallback(
                                fb, RecordStyleWarning(
                                        w, Message("question/passage style not found",
                                                   <<q_style, p_style>>))),
                            <<"faces">>, <<>>, <<Returned(fb)>>))
        ELSE
        Bind(TransplantTemplateStyles(container, tpl, memo, k[1]),
             LAMBDA t :
        Bind(RememberAll(memo, t.zdata),
             LAMBDA m1 :
        Bind(RewriteStyleIds(t.container, question_idx, passage_idx, m1, k[2], k[3]),
             LAMBDA r :
                IF r.eff.raised
                THEN Called(StyleIdsOutcome(t, r, NoEffect(r.eff.container, FALSE), w2),
                            <<"transplant", "rewrite">>, <<question_idx, passage_idx>>,
                            <<Returned([t EXCEPT !.raised = FALSE]), Returned(r.eff)>>)
                ELSE Bind(PostProcessQuestionEmphasisFaces(
                              r.eff.container, RememberAll(m1, r.eff.zdata), k[4]),
                          LAMBDA f : Called(StyleIdsOutcome(t, r, f, w2),
                                            <<"transplant", "rewrite", "faces">>,
                                            <<question_idx, passage_idx>>,
                                            <<Returned([t EXCEPT !.raised = FALSE]),
                                              Returned(r.eff), Returned(f)>>)))))

(***************************************************************************)
(* Building containers                                                     *)
(***************************************************************************)
MaxCalls == 2         \* calls made on one file (Spec)

\* a FileHeader stream of 40 bytes: the flags word at offset 36
FileHeaderOf(compressed) == Bytes(36) \o PackU32(IF compressed THEN 1 ELSE 0)

\* a CHAR_SHAPE payload: the 14-byte face block, then further fields
Face(v) == [i \in 1..14 |-> v]
CharShapeRec(face) == Rec(TAG_CHAR_SHAPE, face \o <<9>>)

\* a STYLE payload: [u16 local_len][local][u16 eng_len][eng][tail], the
\* CharShapeId at offset 6 of the tail
StyleRec(style) ==
    Rec(TAG_STYLE, PackU16(Len(style.name)) \o Utf16(style.name) \o PackU16(0)
                       \o Bytes(6) \o PackU16(style.char_id))

\* an ID_MAPPINGS payload: styleCount is the UINT32 at offset 56
IdMappingsRec(style_count) == Rec(TAG_ID_MAPPINGS, Bytes(56) \o PackU32(style_count))

DocInfoOf(faces, styles) ==
    IdMappingsRec(Len(styles))
        \o Concat([k \in 1..Len(faces) |-> CharShapeRec(faces[k])])
        \o Concat([k \in 1..Len(styles) |-> StyleRec(styles[k])])
        \o Rec(27, <<1>>)

\* a stream as the word processor saved it: in a compressed container a raw
\* DEFLATE stream shorter than the allocated length
SavedStream(data, compressed) ==
    IF compressed THEN [payload |-> data, clen |-> ZFitLen + 1, len |-> ZFitLen + 2]
    ELSE Plain(data)

NameN == <<78>>     \* style names "N", "Q", "P", "B", "X"; "1", "2" are indices
NameQ == <<81>>
NameP == <<80>>
NameB == <<66>>
NameX == <<88>>

\* the template's styles, and the styles of a saved file: the defaults the
\* word processor put in place of the custom ones, or the template's own
TemplateStyles ==
    <<[name |-> NameN, char_id |-> 0], [name |-> NameQ, char_id |-> 3],
      [name |-> NameP, char_id |-> 0]>>
SavedStyles ==
    {<<[name |-> NameN, char_id |-> 0], [name |-> NameB, char_id |-> 1]>>,
     TemplateStyles}

\* the face blocks of char shapes 0..3
SavedFaces ==
    {<<Face(1), Face(1), Face(0), Face(2)>>,
     <<Face(0), Face(2), Face(1), Face(0)>>}

SavedBodies ==
    {\* unstyled question and passage paragraphs
     Para(Rec(TAG_PARA_HEADER, ParaHeaderPayload(11, 0)),
          <<Utf16(TextQuestion)>>, <<RunPayload(<<1, 2>>)>>)
       \o Para(Rec(TAG_PARA_HEADER, ParaHeaderPayload(11, 0)),
               <<Utf16(TextPassage)>>, <<RunPayload(<<1>>)>>),
     \* styled paragraphs, an emphasis run in the question
     Para(Rec(TAG_PARA_HEADER, ParaHeaderPayload(11, 1)),
          <<Utf16(TextQuestion)>>, <<RunPayload(<<3, 2>>)>>)
       \o Para(Rec(TAG_PARA_HEADER, ParaHeaderPayload(11, 2)),
               <<Utf16(TextPassage)>>, <<RunPayload(<<0>>)>>),
     \* a short PARA_HEADER before a paragraph without text
     Para(Rec(TAG_PARA_HEADER, ParaHeaderPayload(4, 0)),
          <<Utf16(TextQuestion)>>, <<RunPayload(<<1>>)>>)
       \o Para(Rec(TAG_PARA_HEADER, ParaHeaderPayload(11, 0)),
               <<>>, <<RunPayload(<<2, 1>>)>>)}

\* (question_style, passage_style) of the configuration
StyleNames ==
    {<<NameQ, NameP>>, <<NameX, NameP>>, <<NameQ, NameX>>, <<NameX, NameX>>,
     <<<<49>>, <<50>>>>}

NoTemplate == [exists |-> FALSE, FileHeader |-> Plain(<<>>), DocInfo |-> Plain(<<>>)]

TemplateOf(compressed) ==
    [exists |-> TRUE, FileHeader |-> Plain(FileHeaderOf(compressed)),
     DocInfo |-> SavedStream(DocInfoOf(<<Face(1), Face(1), Face(1), Face(2)>>,
                                       TemplateStyles), compressed)]

\* HwpFormatter.__init__, lines 88-89
LoadStyleIndexMap(tpl) ==
    SeedBuiltinStyleAliases(
        IF tpl.exists
        THEN StyleIndexMapFrom(Decompressed(tpl.DocInfo, IsCompressed(tpl.FileHeader.payload)),
                               0, 0, EmptyDict)
        ELSE EmptyDict)

NoCall == [op |-> "none", result |-> FALSE]

(***************************************************************************)
(* Specification Spec: a formatter and a saved file; post_process_style_ids*)
(* and post_process_question_emphasis_faces are called on the file, as     *)
(* generator._write_question_sheet_hwp does after saving.                  *)
(***************************************************************************)
Init ==
    /\ arg = <<>> /\ ret = NotRun
    /\ \E compressed \in BOOLEAN, body \in SavedBodies, faces \in SavedFaces,
          styles \in SavedStyles :
          file = [FileHeader |-> Plain(FileHeaderOf(compressed)),
                  DocInfo |-> SavedStream(DocInfoOf(faces, styles), compressed),
                  Section0 |-> SavedStream(body, compressed)]
    /\ template \in {NoTemplate, TemplateOf(IsCompressed(file.FileHeader.payload))}
    /\ style_index_map = LoadStyleIndexMap(template)
    /\ \E names \in StyleNames : question_style = names[1] /\ passage_style = names[2]
    /\ style_warnings = [warnings |-> <<>>, seen |-> {}]
    /\ zmemo = EmptyDict
    /\ hist = [calls |-> 0, op |-> "none", start |-> file, result |-> FALSE,
               log |-> <<>>, zfailed |-> {}, changed |-> FALSE, steps |-> <<>>,
               indices |-> <<>>, returns |-> <<>>, prev |-> NoCall]

CallPostProcessStyleIds ==
    /\ hist.calls < MaxCalls
    /\ \E k \in IF IsCompressed(file.FileHeader.payload)
                THEN [1..4 -> ZProfiles] ELSE {<<1, 1, 1, 1>>} :
          \E o \in {PostProcessStyleIds(file, template, style_index_map, question_style,
                                       passage_style, style_warnings, zmemo, k)} :
              /\ file' = o.container
              /\ style_warnings' = o.warn
              /\ zmemo' = RememberAll(zmemo, o.zdata)
              /\ hist' = [calls |-> hist.calls + 1, op |-> "post_process_style_ids",
                          start |-> file, result |-> o.result, log |-> o.log,
                          zfailed |-> o.zfailed, changed |-> o.changed,
                          steps |-> o.steps, indices |-> o.indices, returns |-> o.returns,
                          prev |-> [op |-> hist.op, result |-> hist.result]]
    /\ UNCHANGED <<arg, ret, template, style_index_map, question_style, passage_style>>

\* generator.py line 483: the call made on its own after post_process_style_ids
CallPostProcessQuestionEmphasisFaces ==
    /\ hist.calls < MaxCalls
    /\ \E k \in IF IsCompressed(file.FileHeader.payload) THEN ZProfiles ELSE {1} :
          \E e \in {PostProcessQuestionEmphasisFaces(file, zmemo, k)} :
              /\ file' = e.container
              /\ zmemo' = RememberAll(zmemo, e.zdata)
              /\ hist' = [calls |-> hist.calls + 1,
                          op |-> "post_process_question_emphasis_faces",
                          start |-> file, result |-> e.ret, log |-> StepLog("faces", e),
                          zfailed |-> StepFailed("faces", e), changed |-> FALSE,
                          steps |-> <<"faces">>, indices |-> <<>>, returns |-> <<Returned(e)>>,
                          prev |-> [op |-> hist.op, result |-> hist.result]]
    /\ UNCHANGED <<arg, ret, template, style_index_map, question_style, passage_style,
                   style_warnings>>

Next == CallPostProcessStyleIds \/ CallPostProcessQuestionEmphasisFaces

Spec == Init /\ [][Next]_vars

(***************************************************************************)
(* Properties of Spec                                                      *)
(***************************************************************************)
Compressed == IsCompressed(file.FileHeader.payload)

\* the face blocks of the char shapes before and after the last call
FacesBefore == CollectDocinfoCharshapeFaceBytes(hist.start.DocInfo.payload)
FacesAfter == CollectDocinfoCharshapeFaceBytes(file.DocInfo.payload)

\* C1: when a recompression failed at some step of post_process_style_ids on
\* a compressed container, the call returned False and every stream of the
\* container is what it was before the call.
C1_RecompressFailureLeavesFileUntouched ==
    (hist.op = "post_process_style_ids" /\ Compressed /\ hist.zfailed # {}) =>
        (hist.result = FALSE /\ file = hist.start)

\* C3 as stated: every write_stream call of the last call carried exactly as
\* many bytes as the stream held.
C3_EveryWriteKeepsLength ==
    \A i \in DOMAIN hist.log : hist.log[i].size = hist.log[i].had

\* C3 amended: the writes of the body rewrite and of the face reconciliation,
\* and the transplant's write on a compressed container, carry exactly as many
\* bytes as the stream held; the transplant on an uncompressed container may
\* issue a write of another length, which the container refuses: no stream's
\* length ever changes.
C3_WritesKeepLengthOrAreRefused ==
    /\ \A i \in DOMAIN hist.log :
          \/ hist.log[i].size = hist.log[i].had
          \/ hist.log[i].step = "transplant" /\ ~Compressed
    /\ file.DocInfo.len = hist.start.DocInfo.len
    /\ file.Section0.len = hist.start.Section0.len
    /\ file.FileHeader = hist.start.FileHeader

\* a call on an uncompressed container whose transplant issued a write of
\* another length, which was refused, and whose rewrite then wrote the body
C3_Witness ==
    /\ ~Compressed
    /\ \E i, j \in DOMAIN hist.log :
          /\ hist.log[i].step = "transplant" /\ hist.log[i].size # hist.log[i].had
          /\ hist.log[j].step = "rewrite" /\ hist.log[j].stream = "Section0"
    /\ file.DocInfo.len = hist.start.DocInfo.len

\* C4: a face block that the last call changed was all-zero before the call
\* (and so was overwritten with a non-zero base face).
C4_OnlyZeroFacesOverwritten ==
    hist.calls > 0 =>
        \A c \in DOMAIN FacesBefore :
            FacesAfter[c] # FacesBefore[c] => FacesBefore[c] = ZeroFace

\* C7: a run of post_process_style_ids right after a run of it that returned
\* True finds nothing to change in the body (changed flag false), writes no
\* BodyText stream and leaves every stream as the first run left it.
C7_SecondRunChangesNothing ==
    (/\ hist.op = "post_process_style_ids"
     /\ hist.prev.op = "post_process_style_ids" /\ hist.prev.result) =>
        /\ ~hist.changed
        /\ \A i \in DOMAIN hist.log : hist.log[i].stream # "Section0"
        /\ file = hist.start

\* the indices the formatter's two style names resolve to (NoId: not resolved)
QuestionResolved == ResolveStyleIndex(style_index_map, question_style)
PassageResolved == ResolveStyleIndex(style_index_map, passage_style)

\* C19: a call of post_process_style_ids with neither style name resolving
\* leaves a warning naming both styles, runs no transplant and no body rewrite
\* (BodyText/Section0 is not touched), and does to the file and returns what
\* post_process_question_emphasis_faces does and returns on it.
C19_FallbackStep ==
    (/\ hist'.op = "post_process_style_ids"
     /\ QuestionResolved = NoId /\ PassageResolved = NoId) =>
        /\ hist'.steps = <<"faces">> /\ hist'.indices = <<>>
        /\ \A i \in DOMAIN hist'.log : hist'.log[i].step = "faces"
        /\ file'.Section0 = file.Section0
        /\ \E m \in Range(style_warnings'.warnings) :
              m.names = <<question_style, passage_style>>
        /\ \E k \in ZProfiles :
              \E e \in {PostProcessQuestionEmphasisFaces(file, zmemo, k)} :
                  file' = e.container /\ hist'.result = (~e.raised /\ e.ret)

C19_FallbackRunsOnlyFacePass == [][C19_FallbackStep]_vars

\* C19 witness: with two names that do not resolve the call ran the face pass
\* only, which rewrote DocInfo, and returned True.
C19_Witness ==
    /\ hist.op = "post_process_style_ids" /\ hist.steps = <<"faces">>
    /\ QuestionResolved = NoId /\ PassageResolved = NoId
    /\ hist.result /\ file.DocInfo # hist.start.DocInfo

\* the style bytes of the PARA_HEADER records of 11 bytes or more
StyleBytes(body) ==
    {body[r[1] + (r[2] - r[1] - Frame(body, r[1]).size) + 10 + 1] :
        r \in {x \in Range(ParseRecordPositions(body)) :
                  x[3] = TAG_PARA_HEADER /\ Frame(body, x[1]).size >= 11}}

\* C20: a call of post_process_style_ids with exactly one style name resolving
\* (to index r) runs the transplant and the body rewrite, hands the rewrite
\* the indices (r, r), leaves a warning naming the style that did not resolve,
\* and, when it returns True, leaves no style byte other than r and 0.
C20_SubstituteStep ==
    (/\ hist'.op = "post_process_style_ids"
     /\ (QuestionResolved = NoId) # (PassageResolved = NoId)) =>
        LET r == IF QuestionResolved = NoId THEN PassageResolved ELSE QuestionResolved
            missing == IF QuestionResolved = NoId THEN question_style ELSE passage_style
        IN  /\ SubSeq(hist'.steps, 1, 2) = <<"transplant", "rewrite">>
            /\ hist'.indices = <<r, r>>
            /\ \E m \in Range(style_warnings'.warnings) : m.names = <<missing>>
            /\ hist'.result => StyleBytes(file'.Section0.payload) \subseteq {r, 0}

C20_MissingStyleSubstituted == [][C20_SubstituteStep]_vars

\* C20 witness: the question style did not resolve, the passage style is style
\* 2: the rewrite was handed (2, 2), wrote the body and the call returned True.
C20_Witness ==
    /\ hist.op = "post_process_style_ids" /\ hist.indices = <<2, 2>>
    /\ QuestionResolved = NoId /\ PassageResolved = 2
    /\ hist.result /\ file.Section0 # hist.start.Section0
    /\ StyleBytes(file.Section0.payload) = {2}

(***************************************************************************)
(* Specification SpecTransplant: _transplant_template_styles on a target   *)
(* and a template.  The target's DocInfo is an ID_MAPPINGS record, a       *)
(* CHAR_SHAPE record, its STYLE records and a closing record; the          *)
(* ID_MAPPINGS payload has `size` bytes and holds `count` in its style     *)
(* count field (as far as the field fits); with `gap` a record of another  *)
(* tag stands between its first and its second STYLE record.  Either       *)
(* container may lack a stream; the template may not be there at all.      *)
(***************************************************************************)
\* an ID_MAPPINGS record of `size` payload bytes, styleCount = count
IdMappingsOf(size, count) ==
    Rec(TAG_ID_MAPPINGS, SubSeq(Bytes(56) \o PackU32(count) \o Bytes(4), 1, size))

OtherStyles == <<[name |-> NameB, char_id |-> 2], [name |-> NameX, char_id |-> 1]>>

TargetStyleLists == {<<>>, OtherStyles, TemplateStyles}
TemplateStyleLists == {<<>>, <<[name |-> NameN, char_id |-> 0], [name |-> NameB, char_id |-> 1]>>,
                       TemplateStyles}

\* the ID_MAPPINGS records of a target with `o` STYLE records: the count field
\* holds o, o + 1 or 9; the payload is the 60 bytes up to the field, longer,
\* or too short for the field (56 and 59 bytes)
IdMappingsForms(o) ==
    {[size |-> 60, count |-> o], [size |-> 60, count |-> o + 1], [size |-> 60, count |-> 9],
     [size |-> 64, count |-> o], [size |-> 56, count |-> o], [size |-> 59, count |-> o]}

StreamForms == {"ok", "no_DocInfo", "no_FileHeader"}

TransplantInputs ==
    {[fn |-> "transplant", compressed |-> c, o_styles |-> os, gap |-> g, idm |-> idm,
      o_form |-> of, t_styles |-> ts, t_form |-> tf, k |-> k] :
        c \in BOOLEAN, os \in TargetStyleLists, g \in BOOLEAN, idm \in UNION {IdMappingsForms(o) : o \in {0, 2, 3}},
        of \in StreamForms, ts \in TemplateStyleLists, tf \in StreamForms \cup {"absent"},
        k \in ZProfiles}

\* the streams of a container but those it lacks
Streams(c, form) ==
    IF form = "no_DocInfo" THEN [n \in (DOMAIN c) \ {"DocInfo"} |-> c[n]]
    ELSE IF form = "no_FileHeader" THEN [n \in (DOMAIN c) \ {"FileHeader"} |-> c[n]]
    ELSE c

\* the target's STYLE range: its STYLE records, a record of tag 27 after the
\* first one if gap
TargetStyleRange(o_styles, gap) ==
    Concat([i \in 1..Len(o_styles) |->
               StyleRec(o_styles[i]) \o (IF gap /\ i = 1 THEN Rec(27, <<2>>) ELSE <<>>)])

TargetDocInfo(a) ==
    IdMappingsOf(a.idm.size, a.idm.count) \o CharShapeRec(Face(1))
        \o TargetStyleRange(a.o_styles, a.gap) \o Rec(27, <<1>>)

TargetOf(a) ==
    Streams([FileHeader |-> Plain(FileHeaderOf(a.compressed)),
             DocInfo |-> SavedStream(TargetDocInfo(a), a.compressed),
             Section0 |-> SavedStream(Rec(TAG_PARA_HEADER, ParaHeaderPayload(11, 0)),
                                      a.compressed)], a.o_form)

TemplateFor(a) ==
    IF a.t_form = "absent" THEN NoTemplate
    ELSE Streams([exists |-> TRUE, FileHeader |-> Plain(FileHeaderOf(a.compressed)),
                  DocInfo |-> SavedStream(DocInfoOf(<<Face(1)>>, a.t_styles), a.compressed)],
                 a.t_form)

InitTransplant ==
    /\ arg \in TransplantInputs
    /\ arg.idm \in IdMappingsForms(Len(arg.o_styles))
    /\ (arg.gap => Len(arg.o_styles) >= 2)
    /\ (~arg.compressed => arg.k = 1)
    /\ ret = NotRun /\ NoFormatter

CallTransplant ==
    /\ arg.fn = "transplant" /\ ret = NotRun
    /\ ret' = [called |-> TRUE,
               eff |-> TransplantTemplateStyles(TargetOf(arg), TemplateFor(arg),
                                                EmptyDict, arg.k)]
    /\ UNCHANGED <<arg, formatter>>

NextTransplant == CallTransplant

SpecTransplant == InitTransplant /\ [][NextTransplant]_vars

\* the bytes of the first record with the given tag in a buffer (<<>> if none)
FirstRecord(data, tag_id) ==
    LET recs == ParseRecordPositions(data)
        hits == {i \in DOMAIN recs : recs[i][3] = tag_id}
    IN  IF hits = {} THEN <<>>
        ELSE LET i == CHOOSE h \in hits : \A g \in hits : h <= g
             IN  Slice(data, recs[i][1], recs[i][2])

\* C12: in a transplant with template style count T # O (the target's style
\* count), the target's ID_MAPPINGS record comes out with T in the uint32 at
\* payload offset 56 when that field held O, and comes out unchanged in every
\* byte when the field held another value or the payload ends before offset 60.
C12_CountPatchedOnlyWhenOld ==
    (ret # NotRun /\ arg.fn = "transplant" /\ arg.o_form = "ok"
       /\ Len(arg.t_styles) # Len(arg.o_styles)) =>
        LET before == IdMappingsOf(arg.idm.size, arg.idm.count)
            after  == FirstRecord(ret.eff.container.DocInfo.payload, TAG_ID_MAPPINGS)
        IN  after = IF /\ ret.eff.ret /\ arg.idm.size >= 60
                       /\ arg.idm.count = Len(arg.o_styles)
                    THEN IdMappingsOf(arg.idm.size, Len(arg.t_styles))
                    ELSE before

\* C12 witness: a transplant of three styles over two was written, and the
\* field, which held 9, still holds 9.
C12_Witness ==
    /\ ret # NotRun /\ arg.fn = "transplant" /\ ret.eff.ret
    /\ Len(arg.o_styles) = 2 /\ Len(arg.t_styles) = 3
    /\ arg.idm = [size |-> 60, count |-> 9]
    /\ ret.eff.container.DocInfo.payload # TargetDocInfo(arg)
    /\ U32(FirstRecord(ret.eff.container.DocInfo.payload, TAG_ID_MAPPINGS), 4 + 56) = 9

\* C13: after a successful transplant the target's decompressed DocInfo is
\* its bytes before its first STYLE record (the ID_MAPPINGS count field
\* possibly patched), then the template's STYLE records in template order,
\* then its bytes after its last STYLE record.
C13_StyleRangeReplaced ==
    (ret # NotRun /\ arg.fn = "transplant" /\ ret.eff.ret) =>
        LET O == Len(arg.o_styles)
            T == Len(arg.t_styles)
            patched == T # O /\ arg.idm.size >= 60 /\ arg.idm.count = O
        IN  ret.eff.container.DocInfo.payload =
                IdMappingsOf(arg.idm.size, IF patched THEN T ELSE arg.idm.count)
                    \o CharShapeRec(Face(1))
                    \o Concat([i \in 1..T |-> StyleRec(arg.t_styles[i])])
                    \o Rec(27, <<1>>)

\* C13 witness: three template styles were written over a range of two STYLE
\* records with a record of another tag between them.
C13_Witness ==
    /\ ret # NotRun /\ arg.fn = "transplant" /\ ret.eff.ret
    /\ arg.gap /\ Len(arg.o_styles) = 2 /\ arg.t_styles = TemplateStyles
    /\ ret.eff.container # TargetOf(arg)

\* C14: when the template has no STYLE record, or the template or the target
\* lacks its DocInfo or its FileHeader stream, the transplant returns False,
\* issues no write and leaves the target as it was.
C14_TransplantAborts ==
    (/\ ret # NotRun /\ arg.fn = "transplant"
     /\ \/ arg.t_form # "absent" /\ arg.t_styles = <<>>
        \/ arg.t_form \in {"no_DocInfo", "no_FileHeader"}
        \/ arg.o_form \in {"no_DocInfo", "no_FileHeader"}) =>
        /\ ~ret.eff.ret
        /\ ret.eff.attempts = <<>>
        /\ ret.eff.container = TargetOf(arg)

\* C14 witness: a template with all its streams but no STYLE record, on a
\* compressed target with two styles whose recompression would fit: nothing
\* was written.
C14_Witness ==
    /\ ret # NotRun /\ arg.fn = "transplant"
    /\ arg.t_form = "ok" /\ arg.o_form = "ok" /\ arg.t_styles = <<>>
    /\ arg.compressed /\ arg.k = 1 /\ Len(arg.o_styles) = 2
    /\ ~ret.eff.ret /\ ret.eff.container = TargetOf(arg)

(***************************************************************************)
(* Specification SpecEncrypted: the calls of Spec, and the text extraction *)
(* of hwp_controller, on a file whose FileHeader has the encryption bit    *)
(* (bit 1 of the flags) set.  The streams of such a file are ciphertext:   *)
(* bytes of any kind, here a buffer that does not frame as records and     *)
(* buffers that do.  The compression bit is clear, so that the bytes are   *)
(* read as they are.                                                       *)
(***************************************************************************)
\* HwpController._is_hwp_encrypted: bool(flags & 0x02), False on a short header
IsHwpEncrypted(container) ==
    LET header == container.FileHeader.payload
    IN  IF Len(header) < 40 THEN FALSE ELSE (U32(header, 36) \div 2) % 2 = 1

EncryptedHeader == Bytes(36) \o PackU32(2)

\* size field 0xFFF with one byte where the extended size should be
OpaqueBytes == <<255, 255, 255, 255, 1>>

InitEncrypted ==
    /\ arg = <<>> /\ ret = NotRun
    /\ \E docinfo \in {OpaqueBytes} \cup {DocInfoOf(f, st) : f \in SavedFaces, st \in SavedStyles},
          body \in {OpaqueBytes} \cup SavedBodies :
          file = [FileHeader |-> Plain(EncryptedHeader), DocInfo |-> Plain(docinfo),
                  Section0 |-> Plain(body)]
    /\ template \in {NoTemplate, TemplateOf(FALSE)}
    /\ style_index_map = LoadStyleIndexMap(template)
    /\ \E names \in StyleNames : question_style = names[1] /\ passage_style = names[2]
    /\ style_warnings = [warnings |-> <<>>, seen |-> {}]
    /\ zmemo = EmptyDict
    /\ hist = [calls |-> 0, op |-> "none", start |-> file, result |-> FALSE,
               log |-> <<>>, zfailed |-> {}, changed |-> FALSE, steps |-> <<>>,
               indices |-> <<>>, returns |-> <<>>, prev |-> NoCall]

\* _extract_from_hwp_ole on a file with a FileHeader whose encryption bit is
\* set: HwpNotAvailableError is raised at line 74, before any other stream is
\* read (result FALSE: no text was returned)
CallExtractFromHwpOle ==
    /\ hist.calls < MaxCalls
    /\ Exists(file, "FileHeader") /\ IsHwpEncrypted(file)
    /\ hist' = [calls |-> hist.calls + 1, op |-> "extract_from_hwp_ole",
                start |-> file, result |-> FALSE, log |-> <<>>, zfailed |-> {},
                changed |-> FALSE, steps |-> <<>>, indices |-> <<>>, returns |-> <<>>, prev |-> [op |-> hist.op, result |-> hist.result]]
    /\ UNCHANGED <<arg, ret, file, template, style_index_map, question_style,
                   passage_style, style_warnings, zmemo>>

NextEncrypted ==
    \/ CallPostProcessStyleIds
    \/ CallPostProcessQuestionEmphasisFaces
    \/ CallExtractFromHwpOle

SpecEncrypted == InitEncrypted /\ [][NextEncrypted]_vars

\* C15: on a file whose encryption bit is set, post_process_style_ids and
\* post_process_question_emphasis_faces issue no write, leave the file as it
\* was and do not return True, and the text extraction returns no text.
C15_EncryptedRefused ==
    (hist.calls > 0 /\ IsHwpEncrypted(hist.start)) =>
        /\ hist.log = <<>>
        /\ file = hist.start
        /\ ~hist.result

(***************************************************************************)
(* Record decoding, loop iteration by loop iteration:                      *)
(* HwpFormatter._parse_record_positions and                                *)
(* HwpController._extract_para_text_lines (on an uncompressed stream).     *)
(* The loop state is ret = [pos, records, output, done, raised]: records   *)
(* holds <<start, end, tag_id>> of every record decoded so far (the list   *)
(* returned by _parse_record_positions; for _extract_para_text_lines the   *)
(* records whose payload it sliced), output the text lines collected.      *)
(***************************************************************************)
MaxRawLen == 4        \* length of the buffers taken byte by byte
MaxRecs == 2          \* complete records of a composed buffer

\* struct.unpack_from("<I", data, off) / struct.unpack("<I", data[off:off+4]):
\* struct.error when fewer than 4 bytes are there
UnpackFrom(data, off) ==
    IF off + 4 <= Len(data) THEN [ok |-> TRUE, tag_id |-> TagAt(data, off),
                                  size |-> SizeFieldAt(data, off)]
    ELSE [ok |-> FALSE, tag_id |-> 0, size |-> 0]

\* A plausible slip: the loop goes on while any byte is left.
LoopGuardAnyByte(data, pos) == pos < Len(data)

\* "while pos + 4 <= length"
LoopGuard(data, pos) == pos + 4 <= Len(data)

\* str.splitlines(): the line boundaries, "\r\n" being one boundary
LineBoundaries == {10, 11, 12, 13, 28, 29, 30, 133, 8232, 8233}

RECURSIVE SplitLinesFrom(_, _, _, _)
SplitLinesFrom(s, i, cur, out) ==
    IF i > Len(s) THEN (IF cur # <<>> THEN Append(out, cur) ELSE out)
    ELSE IF s[i] = 13 /\ i < Len(s) /\ s[i + 1] = 10
    THEN SplitLinesFrom(s, i + 2, <<>>, Append(out, cur))
    ELSE IF s[i] \in LineBoundaries
    THEN SplitLinesFrom(s, i + 1, <<>>, Append(out, cur))
    ELSE SplitLinesFrom(s, i + 1, Append(cur, s[i]), out)

SplitLines(s) == SplitLinesFrom(s, 1, <<>>, <<>>)

\* the body of the loop of _parse_record_positions (lines 1049-1062)
ParseIterate(data, st) ==
    LET h == UnpackFrom(data, st.pos)
    IN  IF ~h.ok THEN [st EXCEPT !.raised = TRUE, !.done = TRUE]
        ELSE IF h.size = 4095 /\ st.pos + 4 + 4 > Len(data)
        THEN [st EXCEPT !.done = TRUE]
        ELSE LET data_start == IF h.size = 4095 THEN st.pos + 8 ELSE st.pos + 4
                 size == IF h.size = 4095 THEN U32(data, st.pos + 4) ELSE h.size
             IN  IF data_start + size > Len(data) THEN [st EXCEPT !.done = TRUE]
                 ELSE [st EXCEPT !.pos = data_start + size,
                                 !.records = Append(@, <<st.pos, data_start + size, h.tag_id>>)]

\* the body of the loop of _extract_para_text_lines (lines 125-148)
ExtractIterate(data, st) ==
    LET h == UnpackFrom(data, st.pos)
    IN  IF ~h.ok THEN [st EXCEPT !.raised = TRUE, !.done = TRUE]
        ELSE IF h.size = 4095 /\ st.pos + 4 + 4 > Len(data)
        THEN [st EXCEPT !.done = TRUE]
        ELSE LET index == IF h.size = 4095 THEN st.pos + 8 ELSE st.pos + 4
                 size == IF h.size = 4095 THEN U32(data, st.pos + 4) ELSE h.size
             IN  IF index + size > Len(data) THEN [st EXCEPT !.done = TRUE]
                 ELSE LET payload == Slice(data, index, index + size)
                          lines == IF h.tag_id # TAG_PARA_TEXT \/ payload = <<>> THEN <<>>
                                   ELSE SelectSeq(SplitLines(DecodeUtf16(payload)),
                                                  LAMBDA line : Strip(line) # <<>>)
                      IN  [st EXCEPT !.pos = index + size,
                                     !.records = Append(@, <<st.pos, index + size, h.tag_id>>),
                                     !.output = @ \o lines]

(***************************************************************************)
(* Specification SpecDecode: both decoders on every buffer of at most      *)
(* MaxRawLen bytes over five byte values (which give size fields 0, 1 and  *)
(* 0xFFF), and on every buffer composed of at most MaxRecs complete        *)
(* records and a tail.  SpecDecodeFair adds that the loop, once entered,   *)
(* keeps running: the decoders are straight-line single-threaded code.     *)
(***************************************************************************)
RawAlphabet == {0, 1, 16, 240, 255}

RawBuffers == UNION {[1..n -> RawAlphabet] : n \in 0..MaxRawLen}

\* complete records: text of two lines, an empty PARA_HEADER, an escaped-size
\* PARA_TEXT (a blank line, "\r\n", a letter and an odd byte), an empty
\* PARA_TEXT, an escaped-size record of another tag
DecodeChunks ==
    {Rec(TAG_PARA_TEXT, Utf16(<<49, 10, 97>>)),
     Rec(TAG_PARA_HEADER, <<>>),
     RecExt(TAG_PARA_TEXT, Utf16(<<32, 13, 10, 98>>) \o <<7>>),
     Rec(TAG_PARA_TEXT, <<>>),
     RecExt(TAG_CHAR_SHAPE, <<1, 2>>)}

\* what follows the last complete record: nothing; 1 or 3 bytes; a header
\* whose payload overruns; an escaped size without its size word; an escaped
\* size whose payload overruns (by one byte, by far)
DecodeTails ==
    {<<>>, <<67>>, <<67, 0, 0>>,
     RecHeader(TAG_PARA_TEXT, 8) \o <<49, 0>>,
     RecHeader(TAG_PARA_TEXT, 4095) \o <<1, 0>>,
     RecHeader(TAG_PARA_TEXT, 4095) \o PackU32(5) \o <<49, 0, 50, 0>>,
     RecHeader(TAG_PARA_TEXT, 4095) \o <<0, 0, 0, 1>>}

ComposedBuffers ==
    {Concat(cs) \o t : cs \in UNION {[1..n -> DecodeChunks] : n \in 0..MaxRecs},
                       t \in DecodeTails}

DecodeInputs ==
    {[fn |-> f, data |-> d] : f \in {"parse_record_positions", "extract_para_text_lines"},
                              d \in RawBuffers \cup ComposedBuffers}

InitDecode == arg \in DecodeInputs /\ ret = NotRun /\ NoFormatter

\* entering the function: records = [], pos = 0
CallDecode ==
    /\ arg.fn \in {"parse_record_positions", "extract_para_text_lines"} /\ ret = NotRun
    /\ ret' = [called |-> TRUE, pos |-> 0, records |-> <<>>, output |-> <<>>,
               done |-> FALSE, raised |-> FALSE]
    /\ UNCHANGED <<arg, formatter>>

ParseStep ==
    /\ arg.fn = "parse_record_positions" /\ ret # NotRun /\ ~ret.done
    /\ LoopGuard(arg.data, ret.pos)
    /\ ret' = ParseIterate(arg.data, ret)
    /\ UNCHANGED <<arg, formatter>>

ExtractStep ==
    /\ arg.fn = "extract_para_text_lines" /\ ret # NotRun /\ ~ret.done
    /\ LoopGuard(arg.data, ret.pos)
    /\ ret' = ExtractIterate(arg.data, ret)
    /\ UNCHANGED <<arg, formatter>>

\* the loop condition is false: the function returns
DecodeReturn ==
    /\ arg.fn \in {"parse_record_positions", "extract_para_text_lines"}
    /\ ret # NotRun /\ ~ret.done
    /\ ~LoopGuard(arg.data, ret.pos)
    /\ ret' = [ret EXCEPT !.done = TRUE]
    /\ UNCHANGED <<arg, formatter>>

NextDecode == CallDecode \/ ParseStep \/ ExtractStep \/ DecodeReturn

SpecDecode == InitDecode /\ [][NextDecode]_vars

SpecDecodeFair == SpecDecode /\ WF_vars(NextDecode)

\* a whole record lies in the buffer at position p: 4 header bytes, the size
\* word if the size field is 0xFFF, and the payload
RecordFits(data, p) ==
    /\ p + 4 <= Len(data)
    /\ IF SizeFieldAt(data, p) = 4095
       THEN p + 8 <= Len(data) /\ p + 8 + U32(data, p + 4) <= Len(data)
       ELSE p + 4 + SizeFieldAt(data, p) <= Len(data)

RecordEnd(data, p) ==
    IF SizeFieldAt(data, p) = 4095 THEN p + 8 + U32(data, p + 4)
    ELSE p + 4 + SizeFieldAt(data, p)

\* the decoder has not raised; its records lie end to end from offset 0, each
\* a whole record of the buffer; it stands at the end of the last one; and if
\* it has stopped, no whole record lies at the position where it stopped
DecodedCleanly ==
    ret # NotRun =>
        /\ ~ret.raised
        /\ \A i \in DOMAIN ret.records :
              LET start == IF i = 1 THEN 0 ELSE ret.records[i - 1][2]
              IN  /\ ret.records[i][1] = start
                  /\ RecordFits(arg.data, start)
                  /\ ret.records[i][2] = RecordEnd(arg.data, start)
                  /\ ret.records[i][3] = TagAt(arg.data, start)
        /\ ret.pos = IF ret.records = <<>> THEN 0 ELSE ret.records[Len(ret.records)][2]
        /\ ret.done => ~RecordFits(arg.data, ret.pos)

\* C17: on every buffer record decoding never raises, yields whole records
\* laid end to end from offset 0, and terminates, having stopped at the first
\* position where fewer than 4 bytes remain, the size word is missing or the
\* payload would overrun the buffer.
C17_DecodingStopsCleanly == [](DecodedCleanly) /\ <>(ret # NotRun /\ ret.done)

\* C17 witness: the text extraction has stopped after two records, the second
\* one with an escaped size, before a header whose payload overruns the buffer.
C17_Witness ==
    /\ ret # NotRun /\ ret.done /\ arg.fn = "extract_para_text_lines"
    /\ Len(ret.records) = 2 /\ SizeFieldAt(arg.data, ret.records[2][1]) = 4095
    /\ ret.pos + 4 <= Len(arg.data)
    /\ ret.output = <<<<49>>, <<97>>, <<98>>>>

(***************************************************************************)
(* Specification SpecStyleMap: the loop of _load_style_index_map on every  *)
(* DocInfo stream of at most MaxMapRecs records, each a STYLE record with  *)
(* a local and an English name (either may be empty, two names differ in   *)
(* case only, one record has an escaped size) or a record of another tag.  *)
(***************************************************************************)
MaxMapRecs == 3       \* records of a DocInfo stream (SpecStyleMap)

NameLowerQ == <<113>>             \* "q"
NameBo == <<66, 111>>             \* "Bo"

MapPieces ==
    {[tag_id |-> TAG_STYLE, local |-> NameQ, eng |-> <<>>, ext |-> FALSE],
     [tag_id |-> TAG_STYLE, local |-> NameLowerQ, eng |-> <<>>, ext |-> FALSE],
     [tag_id |-> TAG_STYLE, local |-> NameP, eng |-> NameBo, ext |-> FALSE],
     [tag_id |-> TAG_STYLE, local |-> <<>>, eng |-> NameX, ext |-> TRUE],
     [tag_id |-> TAG_STYLE, local |-> <<>>, eng |-> <<>>, ext |-> FALSE],
     [tag_id |-> TAG_CHAR_SHAPE, local |-> <<>>, eng |-> <<>>, ext |-> FALSE],
     [tag_id |-> TAG_ID_MAPPINGS, local |-> <<>>, eng |-> <<>>, ext |-> TRUE]}

\* a STYLE payload with both names: [u16 len][local][u16 len][eng][8 bytes]
StylePayload(local, eng) ==
    PackU16(Len(local)) \o Utf16(local) \o PackU16(Len(eng)) \o Utf16(eng) \o Bytes(8)

MapPieceRec(p) ==
    LET payload == IF p.tag_id = TAG_STYLE THEN StylePayload(p.local, p.eng) ELSE <<1, 2>>
    IN  IF p.ext THEN RecExt(p.tag_id, payload) ELSE Rec(p.tag_id, payload)

MapDocInfo(pieces) == Concat([i \in 1..Len(pieces) |-> MapPieceRec(pieces[i])])

StyleMapInputs ==
    {[fn |-> "load_style_index_map", pieces |-> ps] :
        ps \in UNION {[1..n -> MapPieces] : n \in 0..MaxMapRecs}}

InitStyleMap == arg \in StyleMapInputs /\ ret = NotRun /\ NoFormatter

CallLoadStyleIndexMap ==
    /\ arg.fn = "load_style_index_map" /\ ret = NotRun
    /\ ret' = [called |-> TRUE,
               value |-> StyleIndexMapFrom(MapDocInfo(arg.pieces), 0, 0, EmptyDict)]
    /\ UNCHANGED <<arg, formatter>>

NextStyleMap == CallLoadStyleIndexMap

SpecStyleMap == InitStyleMap /\ [][NextStyleMap]_vars

\* the STYLE records of the stream, in stream order (the k-th one at k + 1)
StylesOf(pieces) == SelectSeq(pieces, LAMBDA p : p.tag_id = TAG_STYLE)

\* the strings a STYLE record registers: its non-empty names, as they are and
\* lower-cased
RegisteredBy(p) == {p.local, Lower(p.local), p.eng, Lower(p.eng)} \ {<<>>}

\* C18: the k-th STYLE record (other tags not counted) has index k, and each
\* of its non-empty names is mapped to k, as it is and lower-cased.
C18_EveryNameMapsToItsIndex ==
    ret # NotRun =>
        LET styles == StylesOf(arg.pieces)
        IN  \A j \in DOMAIN styles : \A n \in RegisteredBy(styles[j]) :
                n \in DOMAIN ret.value /\ ret.value[n] = j - 1

(***************************************************************************)
(* Specification SpecWarnings: the warning list of one formatter           *)
(* (reset_style_runtime_warnings, _record_style_warning)                   *)
(***************************************************************************)
MaxMessageLen == 2    \* characters of a warning message
MaxWarnings == 3      \* recorded warnings (the list is unbounded in the code)

\* A plausible slip: the message is appended without the 'seen' test.
RecordStyleWarningTextUnseen(w, message) ==
    LET text == Strip(message)
    IN  IF text # <<>>
        THEN [warnings |-> Append(w.warnings, text), seen |-> w.seen \cup {text}]
        ELSE w

\* lines 222-226, on the characters of the message
RecordStyleWarningText(w, message) ==
    LET text == Strip(message)
    IN  IF text # <<>> /\ text \notin w.seen
        THEN [warnings |-> Append(w.warnings, text), seen |-> w.seen \cup {text}]
        ELSE w

\* lines 217-219
ResetStyleRuntimeWarnings == [warnings |-> <<>>, seen |-> {}]

WarningMessages == UNION {[1..n -> {32, 97, 98}] : n \in 0..MaxMessageLen}

InitWarnings ==
    /\ arg = None /\ ret = NotRun
    /\ file = None /\ template = None /\ style_index_map = None
    /\ question_style = <<>> /\ passage_style = <<>> /\ zmemo = None
    /\ style_warnings = ResetStyleRuntimeWarnings
    /\ hist = [op |-> "init", message |-> <<>>]

CallRecordStyleWarning ==
    /\ Len(style_warnings.warnings) < MaxWarnings
    /\ \E message \in WarningMessages :
          /\ style_warnings' = RecordStyleWarningText(style_warnings, message)
          /\ hist' = [op |-> "record_style_warning", message |-> message]
    /\ UNCHANGED <<arg, ret, file, template, style_index_map, question_style,
                   passage_style, zmemo>>

CallResetStyleRuntimeWarnings ==
    /\ style_warnings' = ResetStyleRuntimeWarnings
    /\ hist' = [op |-> "reset_style_runtime_warnings", message |-> <<>>]
    /\ UNCHANGED <<arg, ret, file, template, style_index_map, question_style,
                   passage_style, zmemo>>

NextWarnings == CallRecordStyleWarning \/ CallResetStyleRuntimeWarnings

SpecWarnings == InitWarnings /\ [][NextWarnings]_vars

\* the list holds no message twice and its elements are the 'seen' set
WarningsDistinct ==
    /\ \A i, j \in DOMAIN style_warnings.warnings :
          style_warnings.warnings[i] = style_warnings.warnings[j] => i = j
    /\ Range(style_warnings.warnings) = style_warnings.seen

\* a step that records a warning keeps every earlier entry at its position
WarningsOnlyGrow ==
    hist'.op = "record_style_warning" =>
        /\ Len(style_warnings'.warnings) >= Len(style_warnings.warnings)
        /\ SubSeq(style_warnings'.warnings, 1, Len(style_warnings.warnings))
              = style_warnings.warnings

\* C21: between two resets the warning list holds no duplicate, only grows
\* (every earlier entry keeps its position), and its elements are exactly the
\* 'seen' set.
C21_WarningsDeduplicatedAppendOnly == [](WarningsDistinct) /\ [][WarningsOnlyGrow]_vars

\* C21 witness: with two warnings recorded, a message that strips to the first
\* one was offered again and the list was left as it was.
C21_Witness ==
    /\ hist.op = "record_style_warning"
    /\ Len(style_warnings.warnings) = 2
    /\ Strip(hist.message) = style_warnings.warnings[1]
    /\ hist.message # style_warnings.warnings[1]

(***************************************************************************)
(* C22: the run ids collected for face reconciliation                      *)
(***************************************************************************)
\* every paragraph of the body is a PARA_HEADER of 11 bytes or more, its
\* PARA_TEXT and a PARA_CHAR_SHAPE holding whole runs
WholeParagraphs(body) ==
    LET recs == ParseRecordPositions(body)
    IN  /\ Len(recs) > 0 /\ Len(recs) % 3 = 0
        /\ \A p \in 0..((Len(recs) \div 3) - 1) :
              /\ recs[3 * p + 1][3] = TAG_PARA_HEADER
              /\ Frame(body, recs[3 * p + 1][1]).size >= 11
              /\ recs[3 * p + 2][3] = TAG_PARA_TEXT
              /\ recs[3 * p + 3][3] = TAG_PARA_CHAR_SHAPE
              /\ Frame(body, recs[3 * p + 3][1]).size >= 8
              /\ Frame(body, recs[3 * p + 3][1]).size % 8 = 0

\* <<base id, deviant id>> for every run of a question paragraph whose id is
\* not the paragraph's base id
DeviantPairs(body) ==
    LET recs == ParseRecordPositions(body)
    IN  UNION {LET t    == Frame(body, recs[3 * p + 2][1])
                   r    == Frame(body, recs[3 * p + 3][1])
                   text == DecodeParaText(Slice(body, t.data_start, t.data_start + t.size),
                                          0, <<>>)
                   ids  == RunIds(body, r.data_start, r.size)
               IN  IF SpacedNumberPrefix(CandidateForm(text))
                   THEN {<<BaseCharId(ids), ids[k]>> :
                            k \in {j \in DOMAIN ids : ids[j] # BaseCharId(ids)}}
                   ELSE {} : p \in 0..((Len(recs) \div 3) - 1)}

\* the <<source, target>> pairs of a source-to-targets map
PairsOf(stt) == UNION {{<<stt[i].source, c>> : c \in stt[i].targets} : i \in DOMAIN stt}

\* the independent collection records exactly the deviant pairs
IndependentCollectionExact ==
    (ret # NotRun /\ arg.fn = "body" /\ WholeParagraphs(arg.body)) =>
        PairsOf(CollectQuestionCharshapeMismatchIds(arg.body, CollectParaTexts(arg.body)))
            = DeviantPairs(arg.body)

\* C22: in a body of whole paragraphs the ids recorded for face reconciliation
\* are exactly the run ids of question paragraphs that differ from the
\* paragraph's base id (keyed by that base id in the independent collection);
\* a base id is never recorded as its own deviant and other paragraphs
\* contribute nothing.  Stated for the independent collection and for the
\* collection of the rewrite pass.
C22_DeviantsAreNonBaseIds ==
    /\ IndependentCollectionExact
    /\ (/\ ret # NotRun /\ arg.fn = "body" /\ WholeParagraphs(arg.body)
        /\ arg.question_idx # arg.passage_idx /\ arg.question_char_id # NoId) =>
           ret.question_emphasis_char_ids = {pr[2] : pr \in DeviantPairs(arg.body)}

(***************************************************************************)
(* Specification SpecFaces: _rewrite_charshape_face_refs_in_docinfo_bytes  *)
(* on DocInfo buffers of CHAR_SHAPE and other records                      *)
(***************************************************************************)
MaxFaceRecs == 3      \* records of a DocInfo buffer (SpecFaces)

\* CHAR_SHAPE records with a face and further bytes, with a face only, of
\* fewer than 14 bytes; a record of another tag; a CHAR_SHAPE record with an
\* escaped size
FacePieces ==
    {CharShapeRec(Face(1)), Rec(TAG_CHAR_SHAPE, Face(2)),
     Rec(TAG_CHAR_SHAPE, <<7, 7>>), Rec(TAG_STYLE, Face(5) \o <<5>>),
     RecExt(TAG_CHAR_SHAPE, Face(3) \o <<8, 8>>)}

FaceTails == {<<>>, <<21, 0>>}

FaceInputs ==
    {[fn |-> "face_refs", data |-> Concat(ps) \o tail, source_char_id |-> s,
      target_char_ids |-> t] :
        ps \in UNION {[1..n -> FacePieces] : n \in 0..MaxFaceRecs},
        tail \in FaceTails, s \in 0..(MaxFaceRecs - 1),
        t \in SUBSET (0..(MaxFaceRecs - 1))}

InitFaces == arg \in FaceInputs /\ ret = NotRun /\ NoFormatter

CallRewriteCharshapeFaceRefs ==
    /\ arg.fn = "face_refs" /\ ret = NotRun
    /\ \E o \in {RewriteCharshapeFaceRefsInDocinfoBytes(arg.data, arg.source_char_id,
                                                        arg.target_char_ids)} :
          ret' = [called |-> TRUE, data |-> o.data, changed |-> o.changed]
    /\ UNCHANGED <<arg, formatter>>

NextFaces == CallRewriteCharshapeFaceRefs

SpecFaces == InitFaces /\ [][NextFaces]_vars

\* the payload start and size of the CHAR_SHAPE records of a buffer, in stream
\* order: the record of 0-based index k is element k + 1
CharShapesOf(data) ==
    LET recs == SelectSeq(ParseRecordPositions(data), LAMBDA r : r[3] = TAG_CHAR_SHAPE)
    IN  [k \in 1..Len(recs) |->
            [data_start |-> Frame(data, recs[k][1]).data_start,
             size |-> Frame(data, recs[k][1]).size]]

\* the 1-based positions of the face bytes of the target records
TargetFacePositions(data, target_char_ids) ==
    UNION {IF (k - 1) \in target_char_ids /\ CharShapesOf(data)[k].size >= 14
           THEN (CharShapesOf(data)[k].data_start + 1)..(CharShapesOf(data)[k].data_start + 14)
           ELSE {} : k \in DOMAIN CharShapesOf(data)}

\* C23: the call keeps the buffer's length and changes no byte outside the
\* first 14 payload bytes of the CHAR_SHAPE records whose index is a target
\* id; a changed buffer has every such face equal to the source record's
\* first 14 bytes, and the source record is as it was.
C23_OnlyTargetFacesChange ==
    ret # NotRun =>
        LET cs == CharShapesOf(arg.data)
            s  == arg.source_char_id + 1
        IN  /\ Len(ret.data) = Len(arg.data)
            /\ \A b \in DOMAIN arg.data :
                  ret.data[b] # arg.data[b] =>
                      b \in TargetFacePositions(arg.data, arg.target_char_ids)
            /\ ret.changed = (ret.data # arg.data)
            /\ (s \in DOMAIN cs /\ cs[s].size >= 14) =>
                  /\ Slice(ret.data, cs[s].data_start, cs[s].data_start + cs[s].size)
                        = Slice(arg.data, cs[s].data_start, cs[s].data_start + cs[s].size)
                  /\ \A k \in DOMAIN cs :
                        ((k - 1) \in arg.target_char_ids /\ cs[k].size >= 14) =>
                            Slice(ret.data, cs[k].data_start, cs[k].data_start + 14)
                                = Slice(arg.data, cs[s].data_start, cs[s].data_start + 14)

\* C23 witness: of three CHAR_SHAPE records the last was the target and took
\* the face of the first, keeping its bytes after the face; the one between
\* them kept its own face.
C23_Witness ==
    /\ ret # NotRun /\ ret.changed
    /\ arg.data = CharShapeRec(Face(1)) \o Rec(TAG_CHAR_SHAPE, Face(2))
                    \o RecExt(TAG_CHAR_SHAPE, Face(3) \o <<8, 8>>)
    /\ arg.source_char_id = 0 /\ arg.target_char_ids = {2}
    /\ ret.data = CharShapeRec(Face(1)) \o Rec(TAG_CHAR_SHAPE, Face(2))
                    \o RecExt(TAG_CHAR_SHAPE, Face(1) \o <<8, 8>>)

(***************************************************************************)
(* Specification SpecGenerate: OutputGenerator.generate                    *)
(* (src/core/generator.py).  arg holds the generator's configuration and   *)
(* the document type, ret the run: its position, the warnings, the files   *)
(* on disk and the way the call ended.                                     *)
(***************************************************************************)
QuestionHwp == "question_sheet.hwp"
ExplanationHwp == "explanation_sheet.hwp"
QuestionTxt == "question_sheet.txt"
ExplanationTxt == "explanation_sheet.txt"

GenerateInputs ==
    [fn : {"generate"}, base_style_enabled : BOOLEAN, style_required : BOOLEAN,
     style_names_ok : BOOLEAN, template : {"ok", "missing", "unset"},
     win32 : BOOLEAN, type_a : BOOLEAN]

InitGenerate ==
    /\ arg \in GenerateInputs
    /\ ret = [pc |-> "generate", use_styles |-> arg.base_style_enabled,
              run_warnings |-> {}, style_runtime_warnings |-> {},
              last_hwp_error |-> FALSE, generated |-> <<>>, hwp_files |-> <<>>,
              disk |-> {}, produced |-> {}, outcome |-> "running", returned |-> <<>>]
    /\ NoFormatter

\* line 68
StyleRequired == arg.base_style_enabled /\ arg.style_required

\* lines 156-179: a warning for an empty template path and one per style name
\* that is empty or not found
CollectStyleConfigWarnings ==
    IF ~arg.base_style_enabled THEN {}
    ELSE (IF arg.template = "unset" THEN {"config: template path empty"} ELSE {})
         \cup (IF arg.style_names_ok THEN {} ELSE {"config: style not found"})

\* lines 65-93 of generate
GenerateBegin ==
    /\ ret.pc = "generate"
    /\ LET resolved == arg.base_style_enabled /\ arg.template = "ok"
           w0 == IF arg.base_style_enabled /\ arg.template = "missing"
                 THEN {"template file not found"} ELSE {}
           w1 == w0 \cup CollectStyleConfigWarnings
       IN  IF StyleRequired /\ CollectStyleConfigWarnings # {}
           THEN ret' = [ret EXCEPT !.pc = "done", !.run_warnings = w1, !.outcome = "raised"]
           ELSE IF arg.base_style_enabled /\ ~resolved
           THEN IF StyleRequired
                THEN ret' = [ret EXCEPT !.pc = "done", !.run_warnings = w1,
                                        !.outcome = "raised"]
                ELSE ret' = [ret EXCEPT !.pc = IF arg.win32 THEN "question" ELSE "collect",
                                        !.last_hwp_error = ~arg.win32,
                                        !.use_styles = FALSE,
                                        !.run_warnings = w1 \cup {"styles disabled: no template"}]
           ELSE ret' = [ret EXCEPT !.pc = IF arg.win32 THEN "question" ELSE "collect",
                                   !.last_hwp_error = ~arg.win32,
                                   !.run_warnings = w1]
    /\ UNCHANGED <<arg, formatter>>

\* What one sheet write meets: the template opens or not (lines 527-576), the
\* editing and the save succeed or raise, the live formatting records a style
\* warning or not, and the binary post-processing returns True without a
\* warning, records a style warning, returns False or raises.
SheetOutcomes ==
    [open : {"ok", "template_fails"}, edit : {"ok", "raises_before_copy", "raises_after_copy"},
     live_warning : BOOLEAN, post : {"ok", "style_warning", "false", "raises"},
     faces_raise : BOOLEAN]

\* _write_question_sheet_hwp / _write_explanation_sheet_hwp on the file 'name':
\* the run after the call, 'success' being the returned value
WriteSheet(g, name, label, o, with_faces) ==
    LET template_used == arg.base_style_enabled /\ arg.template = "ok"
        strict_open_error == template_used /\ o.open = "template_fails" /\ StyleRequired
        success == ~strict_open_error /\ o.edit = "ok"
        copied == template_used /\ o.edit # "raises_before_copy"
        use_styles == IF template_used /\ o.open = "template_fails" /\ ~StyleRequired
                      THEN FALSE ELSE g.use_styles
        w_open == IF template_used /\ o.open = "template_fails" /\ ~StyleRequired
                  THEN {"template open failed", "styles disabled for this output"} ELSE {}
        w_post == IF success /\ use_styles /\ o.post \in {"false", "raises"}
                  THEN {label \o ": style post-processing failed"} ELSE {}
        w_faces == IF success /\ with_faces /\ o.faces_raise
                   THEN {label \o ": emphasis post-processing error"} ELSE {}
        s_live == IF o.live_warning /\ ~strict_open_error
                  THEN {label \o ": live formatting failed"} ELSE {}
        s_post == IF success /\ use_styles /\ o.post = "style_warning"
                  THEN {label \o ": style not found"} ELSE {}
    IN  [run |-> [g EXCEPT !.use_styles = use_styles,
                           !.run_warnings = @ \cup w_open \cup w_post \cup w_faces,
                           !.style_runtime_warnings = @ \cup s_live \cup s_post,
                           !.last_hwp_error = IF success THEN @ ELSE TRUE,
                           !.disk = IF success \/ copied THEN @ \cup {name} ELSE @,
                           !.produced = IF success THEN @ \cup {name} ELSE @],
         success |-> success]

\* lines 389-393 of _try_generate_hwp with _write_question_sheet_hwp
WriteQuestionSheetHwp ==
    /\ ret.pc = "question"
    /\ \E o \in SheetOutcomes :
          \E w \in {WriteSheet(ret, QuestionHwp, "question sheet", o, TRUE)} :
             ret' = IF ~w.success
                    THEN [w.run EXCEPT !.pc = "collect", !.hwp_files = <<>>]
                    ELSE IF arg.type_a
                    THEN [w.run EXCEPT !.pc = "explanation", !.generated = <<QuestionHwp>>]
                    ELSE [w.run EXCEPT !.pc = "collect", !.generated = <<QuestionHwp>>,
                                       !.hwp_files = <<QuestionHwp>>]
    /\ UNCHANGED <<arg, formatter>>

\* lines 395-404 of _try_generate_hwp with _write_explanation_sheet_hwp
WriteExplanationSheetHwp ==
    /\ ret.pc = "explanation"
    /\ \E o \in SheetOutcomes :
          \E w \in {WriteSheet(ret, ExplanationHwp, "explanation sheet", o, FALSE)} :
             ret' = IF ~w.success
                    THEN [w.run EXCEPT !.pc = "collect", !.hwp_files = <<>>]
                    ELSE [w.run EXCEPT !.pc = "collect",
                                       !.generated = Append(@, ExplanationHwp),
                                       !.hwp_files = Append(w.run.generated, ExplanationHwp)]
    /\ UNCHANGED <<arg, formatter>>

\* _cleanup_generated_files: the files of 'paths' are unlinked
CleanupGeneratedFiles(disk, paths) == disk \ Range(paths)

\* lines 96-123 of generate
GenerateFinish ==
    /\ ret.pc = "collect"
    /\ LET w1 == ret.run_warnings \cup ret.style_runtime_warnings
       IN  IF StyleRequired /\ ret.style_runtime_warnings # {}
           THEN ret' = [ret EXCEPT !.pc = "done", !.run_warnings = w1, !.outcome = "raised",
                                   !.disk = CleanupGeneratedFiles(@, ret.hwp_files)]
           ELSE IF ret.hwp_files # <<>>
           THEN IF StyleRequired /\ w1 # {}
                THEN ret' = [ret EXCEPT !.pc = "done", !.run_warnings = w1,
                                        !.outcome = "raised",
                                        !.disk = CleanupGeneratedFiles(@, ret.hwp_files)]
                ELSE ret' = [ret EXCEPT !.pc = "done", !.run_warnings = w1,
                                        !.outcome = "returned", !.returned = ret.hwp_files]
           ELSE LET w2 == IF ret.last_hwp_error THEN w1 \cup {"HWP generation failed"} ELSE w1
                IN  IF StyleRequired
                    THEN ret' = [ret EXCEPT !.pc = "done", !.run_warnings = w2,
                                            !.outcome = "raised"]
                    ELSE ret' = [ret EXCEPT
                                   !.pc = "done",
                                   !.run_warnings = w2 \cup {"switched to .txt output"},
                                   !.outcome = "returned",
                                   !.disk = @ \cup {QuestionTxt}
                                              \cup (IF arg.type_a THEN {ExplanationTxt} ELSE {}),
                                   !.returned = IF arg.type_a
                                                THEN <<QuestionTxt, ExplanationTxt>>
                                                ELSE <<QuestionTxt>>]
    /\ UNCHANGED <<arg, formatter>>

NextGenerate ==
    GenerateBegin \/ WriteQuestionSheetHwp \/ WriteExplanationSheetHwp \/ GenerateFinish

SpecGenerate == InitGenerate /\ [][NextGenerate]_vars

\* a strict run that has ended with a warning recorded
StrictRunWithWarning ==
    /\ ret.pc = "done" /\ StyleRequired
    /\ (ret.run_warnings # {} \/ ret.style_runtime_warnings # {})

\* a strict run with a warning ends in a raised error and without .txt output
StrictRunRaises ==
    StrictRunWithWarning =>
        ret.outcome = "raised" /\ ret.disk \cap {QuestionTxt, ExplanationTxt} = {}

\* C24: a strict run in which a warning was recorded ends in a raised error,
\* none of the HWP files the run produced is left on disk, and no .txt output
\* was written.
C24_StrictRunFailsClean ==
    StrictRunWithWarning =>
        /\ ret.outcome = "raised"
        /\ ret.disk \cap ret.produced = {}
        /\ ret.disk \cap {QuestionTxt, ExplanationTxt} = {}

(***************************************************************************)
(* C25: the order of the steps of post_process_style_ids                   *)
(***************************************************************************)
StepRank(step) == IF step = "transplant" THEN 1 ELSE IF step = "rewrite" THEN 2 ELSE 3

\* C25: a call of post_process_style_ids with a style index resolved runs the
\* transplant, then the rewrite, then the face reconciliation (their stream
\* writes are issued in that order); the reconciliation runs exactly when the
\* rewrite returned, whatever it returned and whether it changed bytes; the
\* call returns what the rewrite returned, whatever the transplant and the
\* reconciliation did (False when the rewrite raised).
C25_StepsInOrder ==
    (/\ hist.op = "post_process_style_ids"
     /\ (QuestionResolved # NoId \/ PassageResolved # NoId)) =>
        /\ hist.steps \in {<<"transplant", "rewrite">>, <<"transplant", "rewrite", "faces">>}
        /\ Len(hist.returns) = Len(hist.steps)
        /\ (Len(hist.steps) = 3) = (hist.returns[2] # "raised")
        /\ hist.result = (hist.returns[2] = "True")
        /\ \A i, j \in DOMAIN hist.log :
              i < j => StepRank(hist.log[i].step) <= StepRank(hist.log[j].step)

\* C25 witness: the transplant failed and the reconciliation wrote nothing,
\* after a rewrite that changed the body and returned True: the call returned
\* True.
C25_Witness ==
    /\ hist.op = "post_process_style_ids"
    /\ hist.returns = <<"False", "True", "False">>
    /\ hist.changed /\ hist.result

(***************************************************************************)
(* Specification SpecSheet: one call of _write_question_sheet_hwp or       *)
(* _write_explanation_sheet_hwp, statement by statement.  ret holds the    *)
(* position, the live editing session (the HWP process behind the COM      *)
(* object), the caller's reference 'hwp', 'success', and the binary        *)
(* post-processing calls made with what held when each was made.           *)
(***************************************************************************)
SheetInputs ==
    [fn : {"sheet"}, sheet : {"question", "explanation"}, use_styles : BOOLEAN,
     pid_known : BOOLEAN]

InitSheet ==
    /\ arg \in SheetInputs
    /\ ret = [pc |-> "open", session |-> "none", hwp |-> FALSE, told_to_quit |-> FALSE,
              released |-> FALSE, success |-> FALSE, last_hwp_error |-> FALSE,
              run_warnings |-> {}, post |-> <<>>, done |-> FALSE, value |-> FALSE]
    /\ NoFormatter

\* line 445 / 496: hwp = self._open_hwp_document(...): the session is created
\* and returned, or the dispatch raises, or the function raises with the
\* session created (strict template errors, lines 550-563)
OpenHwpDocument ==
    /\ ret.pc = "open"
    /\ \E o \in {"ok", "dispatch_raises", "raises_after_dispatch"} :
          ret' = IF o = "ok"
                 THEN [ret EXCEPT !.pc = "edit", !.session = "open", !.hwp = TRUE]
                 ELSE [ret EXCEPT !.pc = "finally", !.last_hwp_error = TRUE,
                                  !.session = IF o = "dispatch_raises" THEN "none" ELSE "open"]
    /\ UNCHANGED <<arg, formatter>>

\* lines 446-468 / 497-509: page setup, the blocks, _save_hwp, success = True;
\* any exception goes to the except clause
EditAndSave ==
    /\ ret.pc = "edit"
    /\ \E o \in {"saved", "edit_raises", "save_raises"} :
          ret' = IF o = "saved"
                 THEN [ret EXCEPT !.pc = "finally", !.success = TRUE]
                 ELSE [ret EXCEPT !.pc = "finally", !.last_hwp_error = TRUE]
    /\ UNCHANGED <<arg, formatter>>

\* A plausible slip: the session is left open when the save succeeded.
QuitHwpOnFailure(g, quit, kill) ==
    IF ~g.hwp \/ g.success THEN g
    ELSE [g EXCEPT !.told_to_quit = TRUE, !.released = TRUE,
                   !.session = IF quit = "ok" \/ (arg.pid_known /\ kill = "ok")
                               THEN "exited" ELSE "quit_requested"]

\* _quit_hwp (lines 691-713): nothing for None; else Clear and Quit (exceptions
\* swallowed), the COM reference released, and with a known pid the process
\* waited for and killed if still alive
QuitHwp(g, quit, kill) ==
    IF ~g.hwp THEN g
    ELSE [g EXCEPT !.told_to_quit = TRUE, !.released = TRUE,
                   !.session = IF quit = "ok" \/ (arg.pid_known /\ kill = "ok")
                               THEN "exited" ELSE "quit_requested"]

\* the finally clause, lines 470-471 / 511-512
Finally ==
    /\ ret.pc = "finally"
    /\ \E quit \in {"ok", "raises"}, kill \in {"ok", "fails"} :
          ret' = [QuitHwp(ret, quit, kill) EXCEPT !.pc = "post_style"]
    /\ UNCHANGED <<arg, formatter>>

\* a binary post-processing call, with what holds when it is made
PostCall(g, name) ==
    Append(g.post, [call |-> name, session |-> g.session, told_to_quit |-> g.told_to_quit,
                    released |-> g.released, saved |-> g.success])

\* lines 473-479 / 514-520: post_process_style_ids when success and use_styles
PostStyleIds ==
    /\ ret.pc = "post_style"
    /\ \E o \in {"True", "False", "raises"} :
          ret' = IF ret.success /\ arg.use_styles
                 THEN [ret EXCEPT
                         !.pc = "post_faces",
                         !.post = PostCall(ret, "post_process_style_ids"),
                         !.run_warnings = IF o = "True" THEN @
                                          ELSE @ \cup {"style post-processing: " \o o}]
                 ELSE [ret EXCEPT !.pc = "post_faces"]
    /\ UNCHANGED <<arg, formatter>>

\* lines 480-484 (question sheet only): post_process_question_emphasis_faces
\* when success; then 'return success'
PostFacesAndReturn ==
    /\ ret.pc = "post_faces"
    /\ \E o \in {"returns", "raises"} :
          ret' = IF ret.success /\ arg.sheet = "question"
                 THEN [ret EXCEPT
                         !.pc = "returned", !.done = TRUE, !.value = ret.success,
                         !.post = PostCall(ret, "post_process_question_emphasis_faces"),
                         !.run_warnings = IF o = "returns" THEN @
                                          ELSE @ \cup {"emphasis post-processing error"}]
                 ELSE [ret EXCEPT !.pc = "returned", !.done = TRUE, !.value = ret.success]
    /\ UNCHANGED <<arg, formatter>>

NextSheet == OpenHwpDocument \/ EditAndSave \/ Finally \/ PostStyleIds \/ PostFacesAndReturn

SpecSheet == InitSheet /\ [][NextSheet]_vars

CountBlanked(rec_bytes, tag_id) ==
    IF tag_id = TAG_ID_MAPPINGS /\ Len(rec_bytes) >= 4 + 60
    THEN Patch(rec_bytes, 4 + 56, Bytes(4))
    ELSE rec_bytes

\* the records of data whose tag is not TAG_STYLE, in order, as bytes
NonStyleRecords(data) ==
    Bind(SelectSeq(ParseRecordPositions(data), LAMBDA r : r[3] # TAG_STYLE),
         LAMBDA recs :
            [i \in 1..Len(recs) |->
                CountBlanked(Slice(data, recs[i][1], recs[i][2]), recs[i][3])])

\* C27: a successful transplant leaves the sequence of the target's records
\* of tags other than STYLE as it was (tag, size and payload, the ID_MAPPINGS
\* style count field aside), records between its first and its last STYLE
\* record included.
C27_NonStyleRecordsPreserved ==
    (ret # NotRun /\ arg.fn = "transplant" /\ ret.eff.ret) =>
        NonStyleRecords(ret.eff.container.DocInfo.payload)
            = NonStyleRecords(TargetDocInfo(arg))

\* the same for targets whose STYLE records stand one after the other
C27_ContiguousPreserved ==
    (ret # NotRun /\ arg.fn = "transplant" /\ ret.eff.ret /\ ~arg.gap) =>
        NonStyleRecords(ret.eff.container.DocInfo.payload)
            = NonStyleRecords(TargetDocInfo(arg))

(***************************************************************************)
(* Specification SpecRunsTwice: _rewrite_para_char_shape_runs applied      *)
(* MaxApplications times in a row, with the same target, to the buffer the *)
(* call before left.  ret is the list of the calls' results.               *)
(***************************************************************************)
MaxApplications == 2

InitRunsTwice == arg \in RunsInputs /\ ret = <<>> /\ NoFormatter

\* the buffer the next call works on
CurrentBuffer == IF ret = <<>> THEN arg.buffer ELSE ret[Len(ret)].buffer

CallRewriteRunsAgain ==
    /\ arg.fn = "runs" /\ Len(ret) < MaxApplications
    /\ ret' = Append(ret, RewriteParaCharShapeRuns(CurrentBuffer, arg.data_start,
                                                   arg.payload_size, arg.target))
    /\ UNCHANGED <<arg, formatter>>

NextRunsTwice == CallRewriteRunsAgain

SpecRunsTwice == InitRunsTwice /\ [][NextRunsTwice]_vars

\* C28: every application of _rewrite_para_char_shape_runs after the first,
\* with the same target, returns False (unchanged) and leaves the buffer
\* exactly as the application before it left it.
C28_SecondApplicationChangesNothing ==
    \A n \in 2..Len(ret) : ~ret[n].changed /\ ret[n].buffer = ret[n - 1].buffer

\* C28 witness: the first application rewrote the base runs of a payload of
\* three runs whose ids tie or whose majority is not the target, the base id
\* of the result is another one than before, and the second application ran.
C28_Witness ==
    /\ Len(ret) = 2 /\ ret[1].changed /\ arg.payload_size = 24
    /\ ret[1].buffer # arg.buffer
    /\ BaseCharId(RunIds(arg.buffer, arg.data_start, arg.payload_size)) # arg.target
    /\ BaseCharId(RunIds(ret[1].buffer, arg.data_start, arg.payload_size)) = arg.target
    /\ Cardinality(Range(RunIds(arg.buffer, arg.data_start, arg.payload_size))) = 3

(***************************************************************************)
(* Specification SpecSections: the calls of Spec on a saved file with two  *)
(* body sections.  BodyText/Section1 holds an unstyled question paragraph  *)
(* with an emphasis run and an unstyled passage paragraph, which the       *)
(* passes restyle when they stand in BodyText/Section0.                    *)
(***************************************************************************)
SecondSection ==
    Para(Rec(TAG_PARA_HEADER, ParaHeaderPayload(11, 0)),
         <<Utf16(TextQuestion)>>, <<RunPayload(<<1, 2>>)>>)
      \o Para(Rec(TAG_PARA_HEADER, ParaHeaderPayload(11, 0)),
              <<Utf16(TextPassage)>>, <<RunPayload(<<1>>)>>)

InitSections ==
    /\ arg = <<>> /\ ret = NotRun
    /\ \E compressed \in BOOLEAN, body \in SavedBodies, faces \in SavedFaces :
          file = [FileHeader |-> Plain(FileHeaderOf(compressed)),
                  DocInfo |-> SavedStream(DocInfoOf(faces, TemplateStyles), compressed),
                  Section0 |-> SavedStream(body, compressed),
                  Section1 |-> SavedStream(SecondSection, compressed)]
    /\ template \in {NoTemplate, TemplateOf(IsCompressed(file.FileHeader.payload))}
    /\ style_index_map = LoadStyleIndexMap(template)
    /\ \E names \in StyleNames : question_style = names[1] /\ passage_style = names[2]
    /\ style_warnings = [warnings |-> <<>>, seen |-> {}]
    /\ zmemo = EmptyDict
    /\ hist = [calls |-> 0, op |-> "none", start |-> file, result |-> FALSE,
               log |-> <<>>, zfailed |-> {}, changed |-> FALSE, steps |-> <<>>,
               indices |-> <<>>, returns |-> <<>>, prev |-> NoCall]

SpecSections == InitSections /\ [][Next]_vars

\* C29: post_process_style_ids and post_process_question_emphasis_faces write
\* no stream but BodyText/Section0 and DocInfo: the FileHeader and the second
\* body section are byte for byte what they were when the file was saved, no
\* stream is added or removed, and the unstyled paragraphs of the second
\* section keep their style byte and their run ids.
C29_OtherSectionsUntouched ==
    /\ DOMAIN file = {"FileHeader", "DocInfo", "Section0", "Section1"}
    /\ file.FileHeader = Plain(FileHeaderOf(Compressed))
    /\ file.Section1 = SavedStream(SecondSection, Compressed)
    /\ \A i \in DOMAIN hist.log : hist.log[i].stream \in {"Section0", "DocInfo"}

\* C29 witness: post_process_style_ids returned True having restyled the
\* paragraphs of the first section and written DocInfo, and the paragraphs of
\* the second section still carry style 0.
C29_Witness ==
    /\ hist.op = "post_process_style_ids" /\ hist.result
    /\ file.Section0 # hist.start.Section0 /\ file.DocInfo # hist.start.DocInfo
    /\ 0 \notin StyleBytes(file.Section0.payload)
    /\ StyleBytes(file.Section1.payload) = {0}

(***************************************************************************)
(* Specification SpecWorker: GenerationWorker.run (gui/main_window.py),    *)
(* statement by statement.  ret is the thread's state: its position pc,    *)
(* the terminal signals emitted so far, the subprocess attempts made (mode *)
(* timeout and outcome) and whether an exception left run.  The outcome of *)
(* an attempt is what _run_subprocess_attempt returns or raises.           *)
(***************************************************************************)
TimeoutSecs == {10, 60, 100}

WorkerInputs ==
    {[fn |-> "worker", style_required |-> s, timeout_sec |-> t] :
        s \in BOOLEAN, t \in TimeoutSecs}

\* what an attempt yields: a result with ok true (its files all .hwp or not,
\* a warning or none, or files that are no list), a result with ok false (an
\* RPC error text or another), TimeoutError (timeout or stall), RuntimeError
\* (interruption requested), any other exception (no result file, bad JSON)
AttemptOutcomes ==
    {[kind |-> "ok", hwp_only |-> h, warning |-> w, files_list |-> l] :
        h \in BOOLEAN, w \in BOOLEAN, l \in BOOLEAN}
    \cup {[kind |-> "error", rpc |-> r] : r \in BOOLEAN}
    \cup {[kind |-> k] : k \in {"timeout", "cancelled", "exception"}}

InitWorker ==
    /\ arg \in WorkerInputs
    /\ ret = [pc |-> "start", emitted |-> <<>>, attempts |-> <<>>, raised |-> FALSE,
              temp_dir |-> FALSE, force_safe_mode |-> FALSE]
    /\ NoFormatter

Emit(w, signal) == [w EXCEPT !.emitted = Append(@, signal)]

Attempted(w, mode, timeout_sec, o) ==
    [w EXCEPT !.attempts = Append(@, [mode |-> mode, timeout |-> timeout_sec,
                                      outcome |-> o.kind])]

Max2(a, b) == IF a >= b THEN a ELSE b

\* lines 436-437: _cleanup_stale_runtime_tmp(); temp_dir = _create_worker_temp_dir(),
\* which raises RuntimeError when no candidate directory can be made
CreateWorkerTempDir ==
    /\ arg.fn = "worker" /\ ret.pc = "start"
    /\ \E made \in BOOLEAN :
          ret' = IF made THEN [ret EXCEPT !.pc = "precleanup", !.temp_dir = TRUE]
                 ELSE [ret EXCEPT !.pc = "left", !.raised = TRUE]
    /\ UNCHANGED <<arg, formatter>>

\* lines 444-464: the HWP processes of earlier runs are killed; force_safe_mode
\* stays False whatever remains
PreCleanup ==
    /\ ret.pc = "precleanup"
    /\ ret' = [ret EXCEPT !.pc = "attempt", !.force_safe_mode = FALSE]
    /\ UNCHANGED <<arg, formatter>>

\* lines 477-498 (and 515-536, after the RPC retry): a result with ok true;
\* files that are no list make list(...) or succeeded.emit raise TypeError,
\* which the handlers of lines 537 and 602 turn into failed.emit
OkResult(w, o) ==
    Bind(o.warning \/ w.force_safe_mode,
         LAMBDA warning_text :
            IF arg.style_required /\ ~o.files_list THEN Emit(w, "failed")
            ELSE IF arg.style_required /\ (~o.hwp_only \/ warning_text) THEN Emit(w, "failed")
            ELSE IF ~o.files_list THEN Emit(w, "failed")
            ELSE Emit(w, "succeeded"))

\* lines 466-540 and the handlers of lines 541, 602: the first attempt
FirstAttempt ==
    /\ ret.pc = "attempt"
    /\ \E o \in AttemptOutcomes :
          \E w \in {Attempted(ret, IF ret.force_safe_mode THEN "safe-no-style" ELSE "style",
                              arg.timeout_sec, o)} :
              ret' = IF o.kind = "ok" THEN [OkResult(w, o) EXCEPT !.pc = "finally"]
                     ELSE IF o.kind = "error"
                     THEN IF o.rpc THEN [w EXCEPT !.pc = "rpc_retry"]
                          ELSE [Emit(w, "failed") EXCEPT !.pc = "finally"]
                     ELSE IF o.kind = "timeout" THEN [w EXCEPT !.pc = "timeout"]
                     ELSE [Emit(w, "failed") EXCEPT !.pc = "finally"]
    /\ UNCHANGED <<arg, formatter>>

\* lines 501-540: one more attempt after an RPC error, then failed.emit unless
\* the retry's result was ok
RpcRetry ==
    /\ ret.pc = "rpc_retry"
    /\ \E o \in AttemptOutcomes :
          \E w \in {Attempted(ret, IF ret.force_safe_mode THEN "safe-no-style" ELSE "style",
                              Max2(45, Min(90, arg.timeout_sec + 30)), o)} :
              ret' = IF o.kind = "ok"
                     THEN [OkResult(w, o) EXCEPT !.pc = "finally"]
                     ELSE [Emit(w, "failed") EXCEPT !.pc = "finally"]
    /\ UNCHANGED <<arg, formatter>>

\* lines 541-554: except TimeoutError of the first attempt
TimeoutHandler ==
    /\ ret.pc = "timeout"
    /\ ret' = IF arg.style_required THEN [Emit(ret, "failed") EXCEPT !.pc = "finally"]
              ELSE [ret EXCEPT !.pc = "safe_retry"]
    /\ UNCHANGED <<arg, formatter>>

\* lines 556-601: the retry without styles
SafeRetry ==
    /\ ret.pc = "safe_retry"
    /\ \E o \in AttemptOutcomes :
          \E w \in {Attempted(ret, "safe-no-style", Max2(30, Min(60, arg.timeout_sec)), o)} :
              ret' = IF o.kind = "ok" /\ o.files_list
                     THEN [Emit(w, "succeeded") EXCEPT !.pc = "finally"]
                     ELSE [Emit(w, "failed") EXCEPT !.pc = "finally"]
    /\ UNCHANGED <<arg, formatter>>

\* lines 605-612: finally
WorkerFinally ==
    /\ ret.pc = "finally"
    /\ ret' = [ret EXCEPT !.pc = "returned", !.temp_dir = FALSE]
    /\ UNCHANGED <<arg, formatter>>

NextWorker ==
    \/ CreateWorkerTempDir \/ PreCleanup \/ FirstAttempt \/ RpcRetry
    \/ TimeoutHandler \/ SafeRetry \/ WorkerFinally

SpecWorker == InitWorker /\ [][NextWorker]_vars

\* run is over: it returned or an exception left it
WorkerOver == ret.pc \in {"returned", "left"}

\* C30: every execution of GenerationWorker.run has emitted exactly one
\* terminal signal (succeeded or failed) when it is over, and never more than
\* one before, on every path, the failure to create the temp directory included.
C30_ExactlyOneTerminalSignal ==
    /\ Len(ret.emitted) <= 1
    /\ WorkerOver => Len(ret.emitted) = 1

\* what holds: never two signals, and exactly one on every path that got its
\* temp directory
C30_OneSignalOnceTempDirMade ==
    /\ Len(ret.emitted) <= 1
    /\ ret.pc = "returned" => Len(ret.emitted) = 1
    /\ ret.pc = "left" => ret.emitted = <<>> /\ ret.attempts = <<>>

=============================================================================
